---- MODULE Spec2Model ----
(***************************************************************************)
(* TorDownloader (src/src/download.rs): the request/response state machine *)
(* of download_file and download_web_service, with the pure helpers they   *)
(* call.                                                                   *)
(*                                                                         *)
(* Text is modelled as a sequence of lexemes: the separators " ", ":",     *)
(* "/", "//", ";", "=", "?", "#" and the quote characters are lexemes of   *)
(* their own, every other lexeme is an atom that holds none of them.  A    *)
(* substring search of the code is a search for a contiguous run of        *)
(* lexemes; the patterns of the code all fall on lexeme boundaries.        *)
(* A response is its lines before the header/body separator (each a        *)
(* lexeme sequence, CRLF removed), whether the separator was received,     *)
(* and the bytes after it.                                                 *)
(*                                                                         *)
(* Spec starts from a constructed session and runs the calls.  HelperSpec  *)
(* starts at the call of new(), runs its bootstrap loop, and then applies  *)
(* one of the helper functions (parse_chunked_body, the filename           *)
(* resolution, the redirect resolution) to an input of a bounded set.      *)
(* ConcSpec runs two calls on one session side by side.  EnrichSpec is    *)
(* the client of the generation API (src/src/openai_client.rs): it loads  *)
(* a configuration document and sends the request enrich builds from it.  *)
(***************************************************************************)
EXTENDS Integers, Sequences, FiniteSets, TLC

VARIABLES max_redirects, rate_limit_delay, default_filename, isolation_token, call,
          files, boot, probe

vars ==
    <<max_redirects, rate_limit_delay, default_filename, isolation_token, call, files,
      boot, probe>>

\* the fields of the session a call reads
cfg_vars == <<max_redirects, rate_limit_delay, default_filename, isolation_token>>

\* the construction of the session, and the helper function last applied on its own
unit_vars == <<boot, probe>>

(* ------------------------------ bounds -------------------------------- *)

\* largest value the model passes to set_max_redirects
MaxRedirectsArg == 2

\* largest value the model passes to set_rate_limit_delay
MaxDelayArg == 1

\* how many 429 answers the server gives within one call
MaxRetries == 1

(* ------------------------- program constants --------------------------- *)

DefaultMaxRedirects == 5

DefaultRateLimitDelay == 1

DefaultRetryAfter == 60

(* --------------------------- text helpers ------------------------------ *)

SetMin(S) == CHOOSE x \in S : \A y \in S : x <= y

SetMax(S) == CHOOSE x \in S : \A y \in S : y <= x

\* the lexemes p occur in s from position i on
IsPrefixAt(s, p, i) ==
    /\ i >= 1
    /\ i + Len(p) - 1 <= Len(s)
    /\ \A k \in 1..Len(p) : s[i + k - 1] = p[k]

\* str::contains
contains(s, p) == \E i \in 1..Len(s) : IsPrefixAt(s, p, i)

\* str::find, 0 for None
find(s, p) ==
    IF contains(s, p)
    THEN SetMin({i \in 1..Len(s) : IsPrefixAt(s, p, i)})
    ELSE 0

\* str::starts_with
starts_with(s, p) == IsPrefixAt(s, p, 1)

\* str::trim: leading and trailing blanks removed
trim(s) ==
    LET keep == {i \in 1..Len(s) : s[i] # " "}
    IN  IF keep = {} THEN <<>> ELSE SubSeq(s, SetMin(keep), SetMax(keep))

\* str::trim_matches(ch)
trim_matches(s, ch) ==
    LET keep == {i \in 1..Len(s) : s[i] # ch}
    IN  IF keep = {} THEN <<>> ELSE SubSeq(s, SetMin(keep), SetMax(keep))

\* the lower-case form of the atoms of the model that hold upper-case letters
LowerTable ==
    ("Location" :> "location") @@ ("LOCATION" :> "location")
    @@ ("Retry-After" :> "retry-after") @@ ("RETRY-AFTER" :> "retry-after")
    @@ ("Content-Disposition" :> "content-disposition")
    @@ ("CONTENT-DISPOSITION" :> "content-disposition")
    @@ ("Content-Type" :> "content-type")
    @@ ("Transfer-Encoding" :> "transfer-encoding")
    @@ ("TRANSFER-ENCODING" :> "transfer-encoding")
    @@ ("Chunked" :> "chunked")
    @@ ("X-Note" :> "x-note") @@ ("OK" :> "ok") @@ ("HTTP" :> "http")
    @@ ("Moved" :> "moved") @@ ("Found" :> "found")
    @@ ("See" :> "see") @@ ("Other" :> "other")
    @@ ("Temporary" :> "temporary") @@ ("Permanent" :> "permanent")
    @@ ("Redirect" :> "redirect") @@ ("Created" :> "created")
    @@ ("Not" :> "not") @@ ("Modified" :> "modified")
    @@ ("Too" :> "too") @@ ("Many" :> "many") @@ ("Requests" :> "requests")
    @@ ("Error" :> "error") @@ ("Wed," :> "wed,") @@ ("Oct" :> "oct")
    @@ ("GMT" :> "gmt") @@ ("Filename" :> "filename")

\* str::to_lowercase
to_lowercase(s) ==
    [i \in 1..Len(s) |-> IF s[i] \in DOMAIN LowerTable THEN LowerTable[s[i]] ELSE s[i]]

\* the value of the decimal numerals of the model
DecimalTable ==
    ("0" :> 0) @@ ("1" :> 1) @@ ("2" :> 2) @@ ("3" :> 3) @@ ("5" :> 5)
    @@ ("7" :> 7) @@ ("21" :> 21) @@ ("28" :> 28) @@ ("00" :> 0) @@ ("07" :> 7)
    @@ ("120" :> 120) @@ ("100" :> 100) @@ ("200" :> 200) @@ ("201" :> 201)
    @@ ("204" :> 204) @@ ("301" :> 301) @@ ("302" :> 302) @@ ("303" :> 303)
    @@ ("304" :> 304) @@ ("307" :> 307) @@ ("308" :> 308) @@ ("404" :> 404)
    @@ ("429" :> 429) @@ ("500" :> 500) @@ ("2015" :> 2015)
    @@ ("8443" :> 8443) @@ ("+3" :> 3)

\* str::parse::<u64>: [ok, value]; a numeral beyond 64 bits, like any text that is no
\* numeral, is not in the table and fails to parse
parse_u64(s) ==
    IF Len(s) = 1 /\ s[1] \in DOMAIN DecimalTable
    THEN [ok |-> TRUE, value |-> DecimalTable[s[1]]]
    ELSE [ok |-> FALSE, value |-> 0]

\* str::parse::<u16>
parse_u16(a) ==
    IF a \in DOMAIN DecimalTable /\ DecimalTable[a] < 65536
    THEN [ok |-> TRUE, value |-> DecimalTable[a]]
    ELSE [ok |-> FALSE, value |-> 0]

(* ------------------------------ url::Url ------------------------------- *)

Separators == {" ", ":", "/", "//", ";", "=", "?", "#", "\"", "'"}

NoUrl ==
    [ok |-> FALSE, has_host |-> FALSE, scheme |-> "", host |-> "", port |-> 0,
     path |-> <<>>, query |-> <<>>, fragment |-> <<>>]

\* Url::parse of a URL text
\* <scheme> ":" "//" <host> [":" <port>] <path> ["?" <query>] ["#" <fragment>].
\* port 0 stands for no explicit port.  The crate's normalisations (case of the host,
\* dot segments, percent-encoding) are not modelled: the atoms are in normal form.
url_parse(u) ==
    IF ~(Len(u) >= 2 /\ u[2] = ":" /\ u[1] \notin Separators)
    THEN NoUrl
    ELSE IF Len(u) >= 3 /\ u[3] = "//"
    THEN IF Len(u) < 4 \/ u[4] \in Separators
         THEN NoUrl
         ELSE LET hasPort == Len(u) >= 6 /\ u[5] = ":" /\ u[6] \in DOMAIN DecimalTable
                  tail    == SubSeq(u, IF hasPort THEN 7 ELSE 5, Len(u))
                  h       == find(tail, <<"#">>)
                  rest    == IF h = 0 THEN tail ELSE SubSeq(tail, 1, h - 1)
                  q       == find(rest, <<"?">>)
                  p       == IF q = 0 THEN rest ELSE SubSeq(rest, 1, q - 1)
              IN  [ok |-> TRUE, has_host |-> TRUE, scheme |-> u[1], host |-> u[4],
                   port |-> IF hasPort THEN DecimalTable[u[6]] ELSE 0,
                   path |-> IF p = <<>> THEN <<"/">> ELSE p,
                   query |-> IF q = 0 THEN <<>> ELSE SubSeq(rest, q + 1, Len(rest)),
                   fragment |-> IF h = 0 THEN <<>> ELSE SubSeq(tail, h + 1, Len(tail))]
    ELSE [ok |-> TRUE, has_host |-> FALSE, scheme |-> u[1], host |-> "", port |-> 0,
          path |-> SubSeq(u, 3, Len(u)), query |-> <<>>, fragment |-> <<>>]

\* Url::port_or_known_default().unwrap_or(443)
port_or_default(p) ==
    IF p.port # 0 THEN p.port
    ELSE IF p.scheme \in {"https", "wss"} THEN 443
    ELSE IF p.scheme \in {"http", "ws"} THEN 80
    ELSE IF p.scheme = "ftp" THEN 21
    ELSE 443

\* the index of the last "/" of a path, 0 when it has none
LastSlash(path) ==
    LET at == {i \in 1..Len(path) : path[i] = "/"}
    IN  IF at = {} THEN 0 ELSE SetMax(at)

(* --------------------------- response frame ---------------------------- *)

\* the first line of the header block
status_line_of(lines) == IF Len(lines) = 0 THEN <<"Unknown">> ELSE lines[1]

RedirectCodes == {"301", "302", "303", "307", "308"}

\* status_line.contains(" 301 ") || ... || status_line.contains(" 308 ")
is_redirect_status(status_line) ==
    \E code \in RedirectCodes : contains(status_line, <<" ", code, " ">>)

\* status_line.contains(" 429 ")
is_rate_limited(status_line) == contains(status_line, <<" ", "429", " ">>)

\* headers.contains("200 OK") || headers.contains("HTTP/2 200")
is_success(lines) ==
    \E i \in 1..Len(lines) :
        \/ contains(lines[i], <<"200", " ", "OK">>)
        \/ contains(lines[i], <<"HTTP", "/", "2", " ", "200">>)

\* headers.to_lowercase().contains("transfer-encoding: chunked")
is_chunked(lines) ==
    \E i \in 1..Len(lines) :
        contains(to_lowercase(lines[i]), <<"transfer-encoding", ":", " ", "chunked">>)

\* the index of the first line that starts with the header name, compared in lower case;
\* 0 when there is none
header_line(lines, name) ==
    LET at == {i \in 1..Len(lines) : starts_with(to_lowercase(lines[i]), <<name, ":">>)}
    IN  IF at = {} THEN 0 ELSE SetMin(at)

\* line.split(':').skip(1).collect().join(":").trim(): all that follows the first colon
location_value(line) ==
    LET c == find(line, <<":">>)
    IN  trim(SubSeq(line, c + 1, Len(line)))

\* mutant of redirect_url: a relative Location is appended to the whole current path
redirect_url_appended(parsed_url, new_url) ==
    IF starts_with(new_url, <<"http", ":", "//">>) \/ starts_with(new_url, <<"https", ":", "//">>)
    THEN new_url
    ELSE IF Len(new_url) >= 1 /\ new_url[1] \in {"/", "//"}
    THEN <<parsed_url.scheme, ":", "//", parsed_url.host>> \o new_url
    ELSE <<parsed_url.scheme, ":", "//", parsed_url.host>> \o parsed_url.path \o <<"/">> \o new_url

\* mutant of redirect_url: a relative Location keeps the port of the current URL
redirect_url_with_port(parsed_url, new_url) ==
    LET port   == IF parsed_url.port = 0 THEN <<>>
                  ELSE <<":", CHOOSE t \in DOMAIN DecimalTable :
                                  DecimalTable[t] = parsed_url.port>>
        origin == <<parsed_url.scheme, ":", "//", parsed_url.host>> \o port
    IN  IF starts_with(new_url, <<"http", ":", "//">>)
           \/ starts_with(new_url, <<"https", ":", "//">>)
        THEN new_url
        ELSE IF Len(new_url) >= 1 /\ new_url[1] \in {"/", "//"}
        THEN origin \o new_url
        ELSE origin \o SubSeq(parsed_url.path, 1, LastSlash(parsed_url.path) - 1)
                 \o <<"/">> \o new_url

\* the redirect target built from the Location value and the parsed current URL
redirect_url(parsed_url, new_url) ==
    IF starts_with(new_url, <<"http", ":", "//">>) \/ starts_with(new_url, <<"https", ":", "//">>)
    THEN new_url
    ELSE IF Len(new_url) >= 1 /\ new_url[1] \in {"/", "//"}
    THEN <<parsed_url.scheme, ":", "//", parsed_url.host>> \o new_url
    ELSE LET base_path == SubSeq(parsed_url.path, 1, LastSlash(parsed_url.path) - 1)
         IN  <<parsed_url.scheme, ":", "//", parsed_url.host>> \o base_path \o <<"/">> \o new_url

\* line.split(':').nth(1).unwrap_or("").trim(): what lies between the first colon and
\* the next one
retry_after_value(line) ==
    LET c    == find(line, <<":">>)
        rest == SubSeq(line, c + 1, Len(line))
        d    == find(rest, <<":">>)
    IN  IF c = 0 THEN <<>>
        ELSE trim(IF d = 0 THEN rest ELSE SubSeq(rest, 1, d - 1))

\* the pause a 429 response asks for: the first Retry-After line when it parses, else 60
retry_after_seconds(lines) ==
    LET i == header_line(lines, "retry-after")
        v == IF i = 0 THEN [ok |-> FALSE, value |-> 0] ELSE parse_u64(retry_after_value(lines[i]))
    IN  IF v.ok THEN v.value ELSE DefaultRetryAfter

(* ------------------------- parse_chunked_body -------------------------- *)

\* bytes: CR, LF, and the white space str::trim removes
CR == 13

LF == 10

WhiteBytes == {9, 10, 11, 12, 13, 32}

\* the value of one hexadecimal digit given as its ASCII byte, -1 when it is none
HexDigit(b) ==
    IF b \in 48..57 THEN b - 48
    ELSE IF b \in 97..102 THEN b - 87
    ELSE IF b \in 65..70 THEN b - 55
    ELSE -1

RECURSIVE HexValue(_)
HexValue(ds) ==
    IF ds = <<>> THEN 0
    ELSE 16 * HexValue(SubSeq(ds, 1, Len(ds) - 1)) + HexDigit(ds[Len(ds)])

\* usize::MAX.  The machine word of the source has 64 bits; the model keeps the
\* arithmetic of parse_chunked_body in a word of 8 bits, so that the sizes next to the
\* largest word are short texts ("ff") and stay within the integers of the checker.
UsizeMax == 255

\* mutant of from_str_radix16: the size is read as a decimal number
from_str_radix10(size_str) ==
    LET ds == SelectSeq(size_str, LAMBDA b : b \notin WhiteBytes)
        RECURSIVE dec(_)
        dec(d) == IF d = <<>> THEN 0 ELSE 10 * dec(SubSeq(d, 1, Len(d) - 1)) + d[Len(d)] - 48
    IN  IF ds # <<>> /\ (\A i \in 1..Len(ds) : ds[i] \in 48..57)
        THEN [ok |-> TRUE, value |-> dec(ds)]
        ELSE [ok |-> FALSE, value |-> 0]

\* usize::from_str_radix(size_str.trim(), 16): [ok, value]; a value beyond the word is
\* an error (PosOverflow)
from_str_radix16(size_str) ==
    LET keep == {i \in 1..Len(size_str) : size_str[i] \notin WhiteBytes}
        t    == IF keep = {} THEN <<>> ELSE SubSeq(size_str, SetMin(keep), SetMax(keep))
        ds   == IF Len(t) >= 1 /\ t[1] = 43 THEN Tail(t) ELSE t
    IN  IF ds # <<>> /\ (\A i \in 1..Len(ds) : HexDigit(ds[i]) >= 0)
           /\ HexValue(ds) <= UsizeMax
        THEN [ok |-> TRUE, value |-> HexValue(ds)]
        ELSE [ok |-> FALSE, value |-> 0]

\* data[pos..].windows(2).position(|w| w == b"\r\n"): offset from pos, -1 for None
crlf_position(data, pos) ==
    LET at == {k \in 0..(Len(data) - pos - 2) : data[pos + k + 1] = CR /\ data[pos + k + 2] = LF}
    IN  IF at = {} THEN -1 ELSE SetMin(at)

\* Ok(bytes), an Err, or a panic of the thread
ChunkOk(bytes) == [ok |-> TRUE, panic |-> FALSE, bytes |-> bytes]

ChunkErr == [ok |-> FALSE, panic |-> FALSE, bytes |-> <<>>]

ChunkPanic == [ok |-> FALSE, panic |-> TRUE, bytes |-> <<>>]

\* the builds of the program: with overflow checks (debug) and without (release)
Builds == BOOLEAN

\* the while loop of parse_chunked_body; pos counts from 0 as in the source.  In
\* `pos + chunk_size` a sum beyond the word panics in a build with overflow checks and
\* wraps in one without; a wrapped sum lies below pos, and the slice data[pos..sum]
\* then panics.
RECURSIVE chunked_loop(_, _, _, _)
chunked_loop(data, pos, result, checks) ==
    IF ~(pos < Len(data)) THEN ChunkOk(result)
    ELSE LET line_end == crlf_position(data, pos)
         IN  IF line_end < 0 THEN ChunkErr
             ELSE LET size == from_str_radix16(SubSeq(data, pos + 1, pos + line_end))
                      p2   == pos + line_end + 2
                      sum  == p2 + size.value
                      end  == sum % (UsizeMax + 1)
                  IN  IF ~size.ok THEN ChunkErr
                      ELSE IF size.value = 0 THEN ChunkOk(result)
                      ELSE IF checks /\ sum > UsizeMax THEN ChunkPanic
                      ELSE IF end > Len(data) THEN ChunkErr
                      ELSE IF end < p2 THEN ChunkPanic
                      ELSE chunked_loop(data, end + 2,
                                        result \o SubSeq(data, p2 + 1, end), checks)

parse_chunked_body(data, checks) == chunked_loop(data, 0, <<>>, checks)

(* ------------------------------ filenames ------------------------------ *)

\* the text a Content-Disposition line gives after its first `filename=`:
\* split("filename=").nth(1), trim, trim_matches('"'), trim_matches('\''),
\* split(';').next(), trim; <<>> when the line has no `filename=`
filename_of_line(line) ==
    LET k    == find(line, <<"filename", "=">>)
        rest == SubSeq(line, k + 2, Len(line))
        n    == find(rest, <<"filename", "=">>)
        part == IF n = 0 THEN rest ELSE SubSeq(rest, 1, n - 1)
        q    == trim_matches(trim_matches(trim(part), "\""), "'")
        semi == find(q, <<";">>)
    IN  IF k = 0 THEN <<>>
        ELSE trim(IF semi = 0 THEN q ELSE SubSeq(q, 1, semi - 1))

\* extract_filename_from_headers: [some, name]
extract_filename_from_headers(lines) ==
    LET at == {i \in 1..Len(lines) :
                 /\ starts_with(to_lowercase(lines[i]), <<"content-disposition", ":">>)
                 /\ filename_of_line(lines[i]) # <<>>}
    IN  IF at = {} THEN [some |-> FALSE, name |-> <<>>]
        ELSE [some |-> TRUE, name |-> filename_of_line(lines[SetMin(at)])]

\* extract_filename_from_url: the text after the last "/" of the path, else the default
extract_filename_from_url(url, default) ==
    LET filename == SubSeq(url.path, LastSlash(url.path) + 1, Len(url.path))
    IN  IF filename = <<>> THEN default ELSE filename

\* str::split_whitespace: the maximal runs of lexemes between blanks
RECURSIVE split_whitespace(_)
split_whitespace(line) ==
    LET t == trim(line)
        b == find(t, <<" ">>)
    IN  IF t = <<>> THEN <<>>
        ELSE IF b = 0 THEN <<t>>
        ELSE <<SubSeq(t, 1, b - 1)>> \o split_whitespace(SubSeq(t, b + 1, Len(t)))

\* the suggested filename of download_web_service
web_service_filename(lines) ==
    LET has(p) == \E i \in 1..Len(lines) : contains(to_lowercase(lines[i]), p)
        named  == extract_filename_from_headers(lines)
    IN  IF has(<<"content-type", ":", " ", "application", "/", "json">>) THEN <<"response.json">>
        ELSE IF has(<<"content-type", ":", " ", "text", "/", "csv">>) THEN <<"response.csv">>
        ELSE IF has(<<"content-type", ":", " ", "application", "/", "sparql-results+json">>)
        THEN <<"response.json">>
        ELSE IF named.some THEN named.name
        ELSE <<"response.txt">>

(* ------------------------- inputs and the server ----------------------- *)

UrlHttps == <<"https", ":", "//", "a.example", "/", "dir", "/", "page">>

UrlHttp == <<"http", ":", "//", "a.example", "/", "dir", "/", "page">>

UrlNoScheme == <<"a.example", "/", "dir", "/", "page">>

UrlNoHost == <<"mailto", ":", "user">>

\* the URLs a call is started with
Urls == {UrlHttps, UrlHttp, UrlNoScheme, UrlNoHost}

StatusLine(code, reason) == <<"HTTP", "/", "1.1", " ", code, " ">> \o reason

\* "test": the body of the plain responses
PlainBody == <<116, 101, 115, 116>>

\* "4" CRLF "test" CRLF "0" CRLF CRLF
ChunkedBody == <<52, CR, LF, 116, 101, 115, 116, CR, LF, 48, CR, LF, CR, LF>>

\* a byte of a header value that is no UTF-8 text (the obs-text of a field value)
InvalidByte == "<ff>"

Response(lines, body) == [lines |-> lines, sep |-> TRUE, body |-> body]

NoResponse == [lines |-> <<>>, sep |-> FALSE, body |-> <<>>]

LocationLines ==
    { <<"Location", ":", " ", "/", "x">>,
      <<"location", ":", " ", "y">>,
      <<"LOCATION", ":", " ", "https", ":", "//", "b.example", "/", "z">>,
      <<"Location", ":", " ", "http", ":", "//", "b.example", "/", "z">> }

RetryAfterLines ==
    { <<"Retry-After", ":", " ", "3">>,
      <<"RETRY-AFTER", ":", " ", "120">>,
      <<"Retry-After", ":", " ", "3", ":", "5">>,
      <<"Retry-After", ":", " ", "Wed,", " ", "21", " ", "Oct", " ", "2015", " ",
        "07", ":", "28", ":", "00", " ", "GMT">> }

\* redirects: every redirect status with and without a Location, 302 with each form
RedirectResponses ==
    { Response(<<StatusLine(code, <<"Moved">>), <<"Location", ":", " ", "/", "x">>>>, PlainBody) :
        code \in RedirectCodes }
    \cup { Response(<<StatusLine(code, <<"Moved">>)>>, PlainBody) : code \in RedirectCodes }
    \cup { Response(<<StatusLine("302", <<"Found">>), l>>, PlainBody) : l \in LocationLines }
    \cup { Response(<<StatusLine("301", <<>>), <<"Location", ":", " ", "/", "x">>>>, <<>>) }

RateLimitResponses ==
    { Response(<<StatusLine("429", <<"Too", " ", "Many", " ", "Requests">>), l>>, PlainBody) :
        l \in RetryAfterLines }
    \cup { Response(<<StatusLine("429", <<"Too", " ", "Many", " ", "Requests">>)>>, PlainBody) }

SuccessResponses ==
    { Response(<<StatusLine("200", <<"OK">>)>>, PlainBody),
      Response(<<StatusLine("200", <<"OK">>), <<"Transfer-Encoding", ":", " ", "chunked">>>>,
               ChunkedBody),
      Response(<<StatusLine("200", <<"OK">>), <<"Transfer-Encoding", ":", "chunked">>>>,
               ChunkedBody),
      Response(<<StatusLine("201", <<"Created">>)>>, PlainBody),
      Response(<<StatusLine("204", <<>>)>>, <<>>),
      Response(<<<<"HTTP", "/", "2", " ", "200">>>>, PlainBody),
      Response(<<StatusLine("200", <<"OK">>), <<"X-Owner", ":", " ", InvalidByte>>>>,
               PlainBody),
      Response(<<StatusLine("200", <<"OK">>), <<"X-Owner", ":", " ", InvalidByte>>>>, <<>>),
      Response(<<StatusLine("200", <<"OK">>),
                 <<"Content-Disposition", ":", " ", "attachment", ";", " ", "filename", "=",
                   "\"", "..", "/", "evil.sh", "\"">>>>, PlainBody) }

OtherResponses ==
    { Response(<<StatusLine("304", <<"Not", " ", "Modified">>)>>, <<>>),
      Response(<<StatusLine("404", <<"Not", " ", "Found">>)>>, PlainBody),
      Response(<<StatusLine("500", <<"Error">>)>>, PlainBody),
      Response(<<StatusLine("500", <<"Error">>), <<"X-Note", ":", " ", "200", " ", "OK">>>>,
               PlainBody),
      Response(<<StatusLine("404", <<"Not", " ", "Found">>),
                 <<"X-Note", ":", " ", "200", " ", "OK">>>>, PlainBody) }

\* the connection ended before the header block was complete
TruncatedResponses ==
    { [lines |-> <<StatusLine("200", <<"OK">>)>>, sep |-> FALSE, body |-> <<>>],
      [lines |-> <<StatusLine("404", <<"Not", " ", "Found">>)>>, sep |-> FALSE,
       body |-> <<>>],
      NoResponse }

\* "hi"
ShortBody == <<104, 105>>

\* the answers the model gives two calls that run side by side: a redirect, a 429, two
\* successes with bodies of different lengths, and an error
ConcResponses ==
    { Response(<<StatusLine("302", <<"Found">>), <<"Location", ":", " ", "/", "x">>>>,
               PlainBody),
      Response(<<StatusLine("429", <<"Too", " ", "Many", " ", "Requests">>),
                 <<"Retry-After", ":", " ", "3">>>>, PlainBody),
      Response(<<StatusLine("200", <<"OK">>)>>, PlainBody),
      Response(<<StatusLine("200", <<"OK">>)>>, ShortBody),
      Response(<<StatusLine("404", <<"Not", " ", "Found">>)>>, PlainBody) }

\* what the server may answer: responses in the HTTP/1.1 message syntax (status line
\* `HTTP/1.1 SP code SP reason`, header lines `name: value` with any value), the
\* `HTTP/2 200` form the code names, and truncated ones
Responses ==
    RedirectResponses \cup RateLimitResponses \cup SuccessResponses
    \cup OtherResponses \cup TruncatedResponses

(* ------------------------------- state --------------------------------- *)

NoOutcome == [kind |-> "none", msg |-> "", detail |-> <<>>]

Ok(detail) == [kind |-> "ok", msg |-> "", detail |-> detail]

Err(msg, detail) == [kind |-> "err", msg |-> msg, detail |-> detail]

\* Option<&str>: the request body a caller of download_web_service gives
NoBody == [some |-> FALSE, text |-> <<>>]

\* the request of a call that has sent none: its lines before the blank line, its body
NoRequest == [lines |-> <<>>, body |-> <<>>]

\* a call that has not started.  delays, attempts, handshakes, requests, pauses count
\* what the call has done: rate-limit sleeps, connects through the transport, TLS
\* handshakes, requests written, Retry-After sleeps.  via tells what began the current
\* loop iteration (the call, a redirect, a 429 retry) and follows counts the requests
\* written in an iteration that a redirect began.  method, headers and req_body are the
\* arguments of download_web_service; stream_token is the isolation the last stream was
\* asked for, stream_host and stream_port its target, stream_requests the requests written to it, and
\* request the last request written.
IdleCall ==
    [op |-> "idle", pc |-> "idle", url |-> <<>>, current_url |-> <<>>, redirects |-> 0,
     parsed_url |-> NoUrl, stream |-> "none", response |-> NoResponse,
     retry_after |-> 0, body |-> <<>>, filename |-> <<>>, outcome |-> NoOutcome,
     delays |-> 0, last_delay |-> 0, attempts |-> 0, handshakes |-> 0, requests |-> 0,
     request_url |-> <<>>, pauses |-> 0, last_pause |-> 0, via |-> "start", follows |-> 0,
     method |-> "", headers |-> <<>>, req_body |-> NoBody,
     stream_token |-> 0, stream_host |-> "", stream_port |-> 0, stream_requests |-> 0,
     request |-> NoRequest]

\* IsolationToken::new() in TorDownloader::new(); 0 stands for no token
SessionToken == 1

\* new() has returned a session whose transport came up at the first attempt
Constructed == [pc |-> "ready", attempts |-> 1, sleeps |-> 0, slept |-> 0]

\* no helper function has been applied on its own; the model applies one, once
NoProbe == [fn |-> "none"]

\* the fields TorDownloader::new() gives the session
Defaults ==
    /\ max_redirects = DefaultMaxRedirects
    /\ rate_limit_delay = DefaultRateLimitDelay
    /\ default_filename = <<"index.html">>

\* TorDownloader::new() has returned: the defaults, the session's token, and no call yet
Init ==
    /\ Defaults
    /\ isolation_token = SessionToken
    /\ call = [c \in {"c1"} |-> IdleCall]
    /\ files = <<>>
    /\ boot = Constructed
    /\ probe = NoProbe

\* the setters take &mut self: no call is in progress while one runs
NoCallStarted == \A c \in DOMAIN call : call[c].op = "idle"

set_max_redirects(m) ==
    /\ NoCallStarted
    /\ boot.pc = "ready"
    /\ max_redirects' = m
    /\ UNCHANGED <<rate_limit_delay, default_filename, isolation_token, call, files, unit_vars>>

set_rate_limit_delay(seconds) ==
    /\ NoCallStarted
    /\ boot.pc = "ready"
    /\ rate_limit_delay' = seconds
    /\ UNCHANGED <<max_redirects, default_filename, isolation_token, call, files, unit_vars>>

\* the default filenames the model passes to set_default_filename
DefaultFilenameArgs == {<<>>, <<"out.bin">>}

set_default_filename(name) ==
    /\ NoCallStarted
    /\ boot.pc = "ready"
    /\ default_filename' = name
    /\ UNCHANGED <<max_redirects, rate_limit_delay, isolation_token, call, files, unit_vars>>

\* the thread of the call panics
Panic(r) == [r EXCEPT !.pc = "done", !.outcome = [kind |-> "panic", msg |-> "", detail |-> <<>>]]

Fail(r, msg, detail) == [r EXCEPT !.pc = "done", !.outcome = Err(msg, detail)]

(* ---------------------------- download_file ---------------------------- *)

\* mutant of StartDownloadFile: the output file is opened when the call begins
StartDownloadFileOpening(c, url) ==
    /\ call[c].op = "idle"
    /\ boot.pc = "ready"
    /\ call' = [call EXCEPT ![c] =
                  [IdleCall EXCEPT !.op = "file", !.pc = "top", !.url = url,
                                   !.current_url = url]]
    /\ files' = (default_filename :> <<>>) @@ files
    /\ UNCHANGED <<cfg_vars, unit_vars>>

\* let mut current_url = url.to_string(); let mut redirects = 0;
StartDownloadFile(c, url) ==
    /\ call[c].op = "idle"
    /\ boot.pc = "ready"
    /\ call' = [call EXCEPT ![c] =
                  [IdleCall EXCEPT !.op = "file", !.pc = "top", !.url = url,
                                   !.current_url = url]]
    /\ UNCHANGED <<cfg_vars, unit_vars, files>>

\* mutant of BudgetSpent: the test lets one redirect more through
BudgetSpentLate(redirects, max) == redirects > max

\* if redirects >= self.max_redirects
BudgetSpent(redirects, max) == redirects >= max

\* mutant of LoopTop: the budget is tested after the rate-limit sleep
LoopTopAfterSleep(c) ==
    /\ call[c].op = "file" /\ call[c].pc = "top"
    /\ call' = [call EXCEPT ![c] =
                  IF BudgetSpent(call[c].redirects, max_redirects)
                  THEN Fail([@ EXCEPT !.delays = @ + 1, !.last_delay = rate_limit_delay],
                            "Too many redirects", <<>>)
                  ELSE [@ EXCEPT !.pc = "sleep"]]
    /\ UNCHANGED <<cfg_vars, unit_vars, files>>

\* the top of the loop: the redirect budget
LoopTop(c) ==
    /\ call[c].op = "file" /\ call[c].pc = "top"
    /\ call' = [call EXCEPT ![c] =
                  IF BudgetSpent(call[c].redirects, max_redirects)
                  THEN Fail(@, "Too many redirects", <<>>)
                  ELSE [@ EXCEPT !.pc = "sleep"]]
    /\ UNCHANGED <<cfg_vars, unit_vars, files>>

\* sleep(self.rate_limit_delay).await
rate_limit(r) ==
    [r EXCEPT !.delays = @ + 1, !.last_delay = rate_limit_delay, !.pc = "connect"]

RateLimit(c) ==
    /\ call[c].op = "file" /\ call[c].pc = "sleep"
    /\ call' = [call EXCEPT ![c] = rate_limit(@)]
    /\ UNCHANGED <<cfg_vars, unit_vars, files>>

\* mutant of stream_prefs: every stream is asked for under a token of its own
stream_prefs_fresh(r) == isolation_token + r.attempts + 1

\* prefs.set_isolation(self.isolation_token.clone())
stream_prefs(r) == isolation_token

\* mutant of connect_failed: the connection is tried again
connect_retried(r) == [r EXCEPT !.pc = "connect"]

\* connect_with_prefs(..).await.context("Failed to connect through Tor")?
connect_failed(r) == Fail(r, "Failed to connect through Tor", <<>>)

\* mutant of connect: the scheme is tested before a stream is asked for
connect_scheme_first(r, url, connected) ==
    LET parsed_url == url_parse(url)
        asked      == [r EXCEPT !.parsed_url = parsed_url, !.attempts = @ + 1,
                                !.stream_token = stream_prefs(r),
                                !.stream_host = parsed_url.host,
                                !.stream_port = port_or_default(parsed_url),
                                !.stream_requests = 0]
    IN  IF ~parsed_url.ok THEN Fail(r, "Failed to parse URL", <<>>)
        ELSE IF ~parsed_url.has_host THEN Fail(r, "URL must have a host", <<>>)
        ELSE IF parsed_url.scheme # "https"
        THEN Fail(r, IF r.op = "mem" THEN "Only HTTPS is supported for web services"
                     ELSE "Only HTTPS is supported in this implementation", <<>>)
        ELSE IF ~connected THEN connect_failed(asked)
        ELSE [asked EXCEPT !.stream = "open", !.pc = "tls"]

\* Url::parse, host_str, port, then connect_with_prefs; connected is the transport's answer
connect(r, url, connected) ==
    LET parsed_url == url_parse(url)
        asked      == [r EXCEPT !.parsed_url = parsed_url, !.attempts = @ + 1,
                                !.stream_token = stream_prefs(r),
                                !.stream_host = parsed_url.host,
                                !.stream_port = port_or_default(parsed_url),
                                !.stream_requests = 0]
    IN  IF ~parsed_url.ok THEN Fail(r, "Failed to parse URL", <<>>)
        ELSE IF ~parsed_url.has_host THEN Fail(r, "URL must have a host", <<>>)
        ELSE IF ~connected THEN connect_failed(asked)
        ELSE [asked EXCEPT !.stream = "open", !.pc = "tls"]

Connect(c) ==
    /\ call[c].op = "file" /\ call[c].pc = "connect"
    /\ \E connected \in BOOLEAN :
         call' = [call EXCEPT ![c] = connect(@, @.current_url, connected)]
    /\ UNCHANGED <<cfg_vars, unit_vars, files>>

\* mutant of tls_connect: the scheme is not tested
tls_connect_any(r, shaken, unsupported) ==
    IF shaken
    THEN [r EXCEPT !.handshakes = @ + 1, !.stream = "tls", !.pc = "send"]
    ELSE Fail([r EXCEPT !.handshakes = @ + 1, !.stream = "closed"],
              "Failed to establish TLS connection", <<>>)

\* if parsed_url.scheme() == "https" { tls.connect(host, stream) } else the bail after it
tls_connect(r, shaken, unsupported) ==
    IF r.parsed_url.scheme = "https"
    THEN IF shaken
         THEN [r EXCEPT !.handshakes = @ + 1, !.stream = "tls", !.pc = "send"]
         ELSE Fail([r EXCEPT !.handshakes = @ + 1, !.stream = "closed"],
                   "Failed to establish TLS connection", <<>>)
    ELSE Fail([r EXCEPT !.stream = "closed"], unsupported, <<>>)

Tls(c) ==
    /\ call[c].op = "file" /\ call[c].pc = "tls"
    /\ \E shaken \in BOOLEAN :
         call' = [call EXCEPT ![c] =
                    tls_connect(@, shaken, "Only HTTPS is supported in this implementation")]
    /\ UNCHANGED <<cfg_vars, unit_vars, files>>

\* self.user_agent as new() sets it
user_agent ==
    <<"Mozilla", "/", "5.0", " ", "(Windows", " ", "NT", " ", "10.0", ";", " ", "Win64",
      ";", " ", "x64)", " ", "AppleWebKit", "/", "537.36", " ", "(KHTML,", " ", "like",
      " ", "Gecko)", " ", "Chrome", "/", "135.0.0.0", " ", "Safari", "/", "537.36">>

\* mutant of request_path: the query goes into the request target
request_path_with_query(parsed_url) ==
    IF parsed_url.query = <<>> THEN parsed_url.path
    ELSE parsed_url.path \o <<"?">> \o parsed_url.query

\* if parsed_url.path().is_empty() { "/" } else { parsed_url.path() }
request_path(parsed_url) == IF parsed_url.path = <<>> THEN <<"/">> ELSE parsed_url.path

\* the request download_file formats
file_request(parsed_url) ==
    [lines |->
       << <<"GET", " ">> \o request_path(parsed_url) \o <<" ", "HTTP", "/", "1.1">>,
          <<"Host", ":", " ", parsed_url.host>>,
          <<"User-Agent", ":", " ">> \o user_agent,
          <<"Accept", ":", " ", "text", "/", "html,application", "/",
            "xhtml+xml,application", "/", "xml", ";", "q", "=", "0.9,image", "/",
            "avif,image", "/", "webp,image", "/", "apng,*", "/", "*", ";", "q", "=",
            "0.8,application", "/", "signed-exchange", ";", "v", "=", "b3", ";", "q",
            "=", "0.7">>,
          <<"Accept-Language", ":", " ", "en-US,en", ";", "q", "=", "0.9">>,
          <<"Connection", ":", " ", "close">>,
          <<"Upgrade-Insecure-Requests", ":", " ", "1">>,
          <<"Sec-Fetch-Dest", ":", " ", "document">>,
          <<"Sec-Fetch-Mode", ":", " ", "navigate">>,
          <<"Sec-Fetch-Site", ":", " ", "none">>,
          <<"Sec-Fetch-User", ":", " ", "?", "1">> >>,
     body |-> <<>>]

\* the upper-case form of the method names of the model
UpperTable == ("get" :> "GET") @@ ("post" :> "POST") @@ ("Post" :> "POST")

\* str::to_uppercase of a method name
to_uppercase(a) == IF a \in DOMAIN UpperTable THEN UpperTable[a] ELSE a

Digits == <<"0", "1", "2", "3", "4", "5", "6", "7", "8", "9">>

\* the decimal text format!("{}", n) gives
RECURSIVE to_string(_)
to_string(n) ==
    IF n < 10 THEN Digits[n + 1] ELSE to_string(n \div 10) \o Digits[(n % 10) + 1]

\* str::len: the number of bytes (the atoms of the model are ASCII)
RECURSIVE byte_len(_)
byte_len(s) == IF s = <<>> THEN 0 ELSE Len(s[1]) + byte_len(Tail(s))

\* the request download_web_service builds
ws_request(parsed_url, method, headers, body) ==
    [lines |->
       << <<to_uppercase(method), " ">> \o request_path(parsed_url)
             \o <<" ", "HTTP", "/", "1.1">>,
          <<"Host", ":", " ", parsed_url.host>>,
          <<"User-Agent", ":", " ">> \o user_agent >>
       \o headers
       \o (IF body.some
           THEN << <<"Content-Length", ":", " ", to_string(byte_len(body.text))>> >>
           ELSE <<>>),
     body |-> IF body.some THEN body.text ELSE <<>>]

\* write_all(request) and flush; sent is the stream's answer
send(r, request, sent) ==
    IF sent
    THEN [r EXCEPT !.requests = @ + 1, !.request_url = r.current_url,
                   !.request = request, !.stream_requests = @ + 1,
                   !.follows = IF r.via = "redirect" THEN @ + 1 ELSE @, !.pc = "recv"]
    ELSE Fail([r EXCEPT !.stream = "closed"], "Failed to send HTTPS request", <<>>)

Send(c) ==
    /\ call[c].op = "file" /\ call[c].pc = "send"
    /\ \E sent \in BOOLEAN :
         call' = [call EXCEPT ![c] = send(@, file_request(@.parsed_url), sent)]
    /\ UNCHANGED <<cfg_vars, unit_vars, files>>

\* the catalogue the server answers from: the whole of it to a single call, the short
\* one to calls that run side by side
Served == IF Cardinality(DOMAIN call) = 1 THEN Responses ELSE ConcResponses

\* the responses the server still gives a call: at most MaxRetries of them are 429s
Answers(r) ==
    IF r.pauses < MaxRetries THEN Served ELSE Served \ RateLimitResponses

\* mutant of receive: the stream that was read stays open
receive_keeps_stream(r, response) == [r EXCEPT !.response = response, !.pc = "interp"]

\* the read loop, to end of data
receive(r, response) == [r EXCEPT !.response = response, !.stream = "closed", !.pc = "interp"]

Receive(c) ==
    /\ call[c].op = "file" /\ call[c].pc = "recv"
    /\ \/ \E response \in Answers(call[c]) :
            call' = [call EXCEPT ![c] = receive(@, response)]
       \/ call' = [call EXCEPT ![c] =
                     Fail([@ EXCEPT !.stream = "closed"], "Failed to read response", <<>>)]
    /\ UNCHANGED <<cfg_vars, unit_vars, files>>

\* mutant of missing_location: the loop stops and the redirect's own body is saved
missing_location_stops(r) ==
    [r EXCEPT !.body = r.response.body, !.filename = default_filename, !.pc = "write"]

\* a redirect status whose header block has no Location line
missing_location(r) == Fail(r, "Redirect response without Location header", <<>>)

\* current_url = redirect_url; redirects += 1; continue: the response, a local of the
\* loop body, is dropped
follow_redirect(r, line) ==
    [r EXCEPT !.current_url = redirect_url(r.parsed_url, location_value(line)),
              !.redirects = @ + 1, !.via = "redirect", !.response = NoResponse,
              !.pc = "top"]

\* mutant of RetryTarget: the retry reconnects without the rate-limit sleep
RetryTargetNoDelay == "connect"

\* where the loop goes on after the Retry-After sleep: `continue`
RetryTarget == "top"

\* String::from_utf8_lossy puts the three bytes of U+FFFD in the place of an invalid
\* byte: how far the header block of the converted text is longer than the received one
lossy_growth(lines) ==
    2 * Cardinality(UNION { {<<i, j>> : j \in {k \in 1..Len(lines[i]) :
                                                  lines[i][k] = InvalidByte}} :
                            i \in 1..Len(lines) })

\* &response[body_start + 4..] with body_start found in the converted text: the slice
\* starts lossy_growth bytes into the body, and panics when it starts past the end
raw_body_of(response) ==
    LET skip == lossy_growth(response.lines)
    IN  IF skip > Len(response.body) THEN ChunkPanic
        ELSE ChunkOk(SubSeq(response.body, skip + 1, Len(response.body)))

\* the body of a successful response, decoded
decode_body(lines, raw_body, checks) ==
    IF is_chunked(lines) THEN parse_chunked_body(raw_body, checks)
    ELSE ChunkOk(raw_body)

\* extract_filename_from_headers(headers).unwrap_or_else(|| extract_filename_from_url(..))
resolve_filename(lines, parsed_url, default) ==
    LET named == extract_filename_from_headers(lines)
    IN  IF named.some THEN named.name ELSE extract_filename_from_url(parsed_url, default)

\* what download_file does with a received response
interpret(r, checks) ==
    LET headers     == r.response.lines
        status_line == status_line_of(headers)
        loc         == header_line(headers, "location")
        raw_body    == raw_body_of(r.response)
        body        == decode_body(headers, raw_body.bytes, checks)
    IN  IF ~r.response.sep THEN Fail(r, "Invalid HTTP response", <<>>)
        ELSE IF raw_body.panic THEN Panic(r)
        ELSE IF is_redirect_status(status_line)
        THEN IF loc = 0 THEN missing_location(r) ELSE follow_redirect(r, headers[loc])
        ELSE IF is_rate_limited(status_line)
        THEN [r EXCEPT !.retry_after = retry_after_seconds(headers), !.pc = "pause"]
        ELSE IF ~is_success(headers) THEN Fail(r, "HTTP request failed", status_line)
        ELSE IF body.panic THEN Panic(r)
        ELSE IF ~body.ok THEN Fail(r, "Invalid chunked encoding", <<>>)
        ELSE [r EXCEPT !.body = body.bytes,
                       !.filename = resolve_filename(headers, r.parsed_url, default_filename),
                       !.pc = "write"]

\* mutant of Interpret: the redirect count is kept in the session, for all calls
InterpretShared(c) ==
    /\ call[c].op = "file" /\ call[c].pc = "interp"
    /\ \E checks \in Builds :
         call' = [d \in DOMAIN call |->
                    IF d = c THEN interpret(call[c], checks)
                    ELSE [call[d] EXCEPT !.redirects = interpret(call[c], checks).redirects]]
    /\ UNCHANGED <<cfg_vars, unit_vars, files>>

Interpret(c) ==
    /\ call[c].op = "file" /\ call[c].pc = "interp"
    /\ \E checks \in Builds : call' = [call EXCEPT ![c] = interpret(@, checks)]
    /\ UNCHANGED <<cfg_vars, unit_vars, files>>

\* sleep(Duration::from_secs(retry_after_seconds)).await; continue
Pause(c) ==
    /\ call[c].op = "file" /\ call[c].pc = "pause"
    /\ call' = [call EXCEPT ![c] =
                  [@ EXCEPT !.pauses = @ + 1, !.last_pause = call[c].retry_after,
                            !.via = "retry", !.response = NoResponse, !.retry_after = 0,
                            !.pc = RetryTarget]]
    /\ UNCHANGED <<cfg_vars, unit_vars, files>>

\* File::create(&filename).await: the file exists and is empty, and the call holds a
\* handle of its own at offset 0; no file has the empty path
CreateFile(c) ==
    /\ call[c].op = "file" /\ call[c].pc = "write"
    /\ \/ /\ call[c].filename # <<>>
          /\ files' = (call[c].filename :> <<>>) @@ files
          /\ call' = [call EXCEPT ![c] = [@ EXCEPT !.pc = "write_all"]]
       \/ /\ call' = [call EXCEPT ![c] = Fail(@, "Failed to create output file", <<>>)]
          /\ UNCHANGED files
    /\ UNCHANGED <<cfg_vars, unit_vars>>

\* what a file holds after `bytes` are written through a handle at offset 0
written_over(old, bytes) == bytes \o SubSeq(old, Len(bytes) + 1, Len(old))

\* file.write_all(&body).await, return Ok(filename); a write that fails has written
\* some of the body
WriteAll(c) ==
    /\ call[c].op = "file" /\ call[c].pc = "write_all"
    /\ \/ /\ files' = [files EXCEPT ![call[c].filename] = written_over(@, call[c].body)]
          /\ call' = [call EXCEPT ![c] =
                        [@ EXCEPT !.pc = "done", !.outcome = Ok(call[c].filename)]]
       \/ /\ \E n \in 0..(Len(call[c].body) - 1) :
                files' = [files EXCEPT ![call[c].filename] =
                            written_over(@, SubSeq(call[c].body, 1, n))]
          /\ call' = [call EXCEPT ![c] = Fail(@, "Failed to write to output file", <<>>)]
    /\ UNCHANGED <<cfg_vars, unit_vars>>

(* ------------------------ download_web_service ------------------------- *)

\* the arguments the model gives download_web_service besides the URL
Methods == {"GET", "post"}

HeaderArgs == {<<>>, << <<"Accept", ":", " ", "application", "/", "json">> >>}

BodyArgs == {NoBody, [some |-> TRUE, text |-> <<"query", "=", "ASK">>]}

StartWebService(c, url, method, headers, body) ==
    /\ call[c].op = "idle"
    /\ boot.pc = "ready"
    /\ call' = [call EXCEPT ![c] =
                  [IdleCall EXCEPT !.op = "mem", !.pc = "sleep", !.url = url,
                                   !.current_url = url, !.method = method,
                                   !.headers = headers, !.req_body = body]]
    /\ UNCHANGED <<cfg_vars, unit_vars, files>>

WsRateLimit(c) ==
    /\ call[c].op = "mem" /\ call[c].pc = "sleep"
    /\ call' = [call EXCEPT ![c] = rate_limit(@)]
    /\ UNCHANGED <<cfg_vars, unit_vars, files>>

WsConnect(c) ==
    /\ call[c].op = "mem" /\ call[c].pc = "connect"
    /\ \E connected \in BOOLEAN :
         call' = [call EXCEPT ![c] = connect(@, @.url, connected)]
    /\ UNCHANGED <<cfg_vars, unit_vars, files>>

WsTls(c) ==
    /\ call[c].op = "mem" /\ call[c].pc = "tls"
    /\ \E shaken \in BOOLEAN :
         call' = [call EXCEPT ![c] =
                    tls_connect(@, shaken, "Only HTTPS is supported for web services")]
    /\ UNCHANGED <<cfg_vars, unit_vars, files>>

WsSend(c) ==
    /\ call[c].op = "mem" /\ call[c].pc = "send"
    /\ \E sent \in BOOLEAN :
         call' = [call EXCEPT ![c] =
                    send(@, ws_request(@.parsed_url, @.method, @.headers, @.req_body), sent)]
    /\ UNCHANGED <<cfg_vars, unit_vars, files>>

WsReceive(c) ==
    /\ call[c].op = "mem" /\ call[c].pc = "recv"
    /\ \/ \E response \in Served :
            call' = [call EXCEPT ![c] = receive(@, response)]
       \/ call' = [call EXCEPT ![c] =
                     Fail([@ EXCEPT !.stream = "closed"], "Failed to read response", <<>>)]
    /\ UNCHANGED <<cfg_vars, unit_vars, files>>

\* what download_web_service does with a received response
ws_interpret(r, checks) ==
    LET lines        == r.response.lines
        status_parts == split_whitespace(lines[1])
        status_code  == IF Len(status_parts[2]) = 1 THEN parse_u16(status_parts[2][1])
                        ELSE [ok |-> FALSE, value |-> 0]
        body         == decode_body(lines, r.response.body, checks)
    IN  IF Len(lines) = 0 /\ ~r.response.sep THEN Fail(r, "Empty response", <<>>)
        ELSE IF Len(lines) = 0 \/ Len(status_parts) < 2
        THEN Fail(r, "Invalid HTTP status line", <<>>)
        ELSE IF ~status_code.ok THEN Fail(r, "Failed to parse status code", <<>>)
        ELSE IF status_code.value >= 400 THEN Fail(r, "HTTP error", status_parts[2])
        ELSE IF ~r.response.sep
        THEN Fail(r, "Invalid HTTP response: no body delimiter found", <<>>)
        ELSE IF lossy_growth(lines) > 0 THEN Fail(r, "Invalid UTF-8 in headers", <<>>)
        ELSE IF body.panic THEN Panic(r)
        ELSE IF ~body.ok THEN Fail(r, "Invalid chunked encoding", <<>>)
        ELSE [r EXCEPT !.body = body.bytes, !.filename = web_service_filename(lines),
                       !.pc = "done", !.outcome = Ok(web_service_filename(lines))]

\* mutant of WsInterpret: the operation saves the body under the suggested filename
WsInterpretSaving(c) ==
    /\ call[c].op = "mem" /\ call[c].pc = "interp"
    /\ \E checks \in Builds : call' = [call EXCEPT ![c] = ws_interpret(@, checks)]
    /\ files' = IF call[c]'.outcome.kind = "ok"
                THEN (call[c]'.filename :> call[c]'.body) @@ files ELSE files
    /\ UNCHANGED <<cfg_vars, unit_vars>>

WsInterpret(c) ==
    /\ call[c].op = "mem" /\ call[c].pc = "interp"
    /\ \E checks \in Builds : call' = [call EXCEPT ![c] = ws_interpret(@, checks)]
    /\ UNCHANGED <<cfg_vars, unit_vars, files>>

(* --------------------------- specification ----------------------------- *)

Next ==
    \/ \E m \in 0..MaxRedirectsArg : set_max_redirects(m)
    \/ \E seconds \in 0..MaxDelayArg : set_rate_limit_delay(seconds)
    \/ \E name \in DefaultFilenameArgs : set_default_filename(name)
    \/ \E c \in DOMAIN call, url \in Urls : StartDownloadFile(c, url)
    \/ \E c \in DOMAIN call : LoopTop(c)
    \/ \E c \in DOMAIN call : RateLimit(c)
    \/ \E c \in DOMAIN call : Connect(c)
    \/ \E c \in DOMAIN call : Tls(c)
    \/ \E c \in DOMAIN call : Send(c)
    \/ \E c \in DOMAIN call : Receive(c)
    \/ \E c \in DOMAIN call : Interpret(c)
    \/ \E c \in DOMAIN call : Pause(c)
    \/ \E c \in DOMAIN call : CreateFile(c)
    \/ \E c \in DOMAIN call : WriteAll(c)
    \/ \E c \in DOMAIN call, url \in Urls, method \in Methods, headers \in HeaderArgs,
          body \in BodyArgs :
            StartWebService(c, url, method, headers, body)
    \/ \E c \in DOMAIN call : WsRateLimit(c)
    \/ \E c \in DOMAIN call : WsConnect(c)
    \/ \E c \in DOMAIN call : WsTls(c)
    \/ \E c \in DOMAIN call : WsSend(c)
    \/ \E c \in DOMAIN call : WsReceive(c)
    \/ \E c \in DOMAIN call : WsInterpret(c)

Spec == Init /\ [][Next]_vars

(* ------------------ two calls on one session, side by side -------------- *)

\* the calls that share the session
Calls == {"c1", "c2"}

\* the session as new() returns it, and two calls that have not started
ConcInit ==
    /\ Defaults
    /\ isolation_token = SessionToken
    /\ call = [c \in Calls |-> IdleCall]
    /\ files = <<>>
    /\ boot = Constructed
    /\ probe = NoProbe

\* the steps of the two calls in any order: each call is a future of its own, and the
\* session's methods take &self
ConcNext ==
    \/ \E c \in DOMAIN call : StartDownloadFile(c, UrlHttps)
    \/ \E c \in DOMAIN call : LoopTop(c)
    \/ \E c \in DOMAIN call : RateLimit(c)
    \/ \E c \in DOMAIN call : Connect(c)
    \/ \E c \in DOMAIN call : Tls(c)
    \/ \E c \in DOMAIN call : Send(c)
    \/ \E c \in DOMAIN call : Receive(c)
    \/ \E c \in DOMAIN call : Interpret(c)
    \/ \E c \in DOMAIN call : Pause(c)
    \/ \E c \in DOMAIN call : CreateFile(c)
    \/ \E c \in DOMAIN call : WriteAll(c)
    \/ \E c \in DOMAIN call : StartWebService(c, UrlHttps, "GET", <<>>, NoBody)
    \/ \E c \in DOMAIN call : WsRateLimit(c)
    \/ \E c \in DOMAIN call : WsConnect(c)
    \/ \E c \in DOMAIN call : WsTls(c)
    \/ \E c \in DOMAIN call : WsSend(c)
    \/ \E c \in DOMAIN call : WsReceive(c)
    \/ \E c \in DOMAIN call : WsInterpret(c)

ConcSpec == ConcInit /\ [][ConcNext]_vars

(* -------------- construction and the helpers on their own -------------- *)

\* let max_attempts = 3
max_attempts == 3

\* sleep(Duration::from_secs(5)) between two bootstrap attempts
BootstrapPause == 5

\* new() has been called and has not yet tried to bootstrap; slept is the time it has
\* paused in all
Constructing == [pc |-> "bootstrap", attempts |-> 0, sleeps |-> 0, slept |-> 0]

\* mutant of bootstrap_gives_up: one attempt less
bootstrap_gives_up_early(attempts) == attempts >= max_attempts - 1

\* if attempts >= max_attempts { return Err(e) }
bootstrap_gives_up(attempts) == attempts >= max_attempts

\* one pass of the loop of new(): attempts += 1, create_bootstrapped, and on success the
\* session with its token; bootstrapped is the transport's answer
Bootstrap(bootstrapped) ==
    /\ boot.pc = "bootstrap"
    /\ boot' = [boot EXCEPT !.attempts = @ + 1,
                            !.pc = IF bootstrapped THEN "ready"
                                   ELSE IF bootstrap_gives_up(boot.attempts + 1) THEN "failed"
                                   ELSE "sleep"]
    /\ isolation_token' = IF bootstrapped THEN SessionToken ELSE isolation_token
    /\ UNCHANGED <<max_redirects, rate_limit_delay, default_filename, call, files, probe>>

\* sleep(Duration::from_secs(5)).await, then the loop again
BootstrapSleep ==
    /\ boot.pc = "sleep"
    /\ boot' = [boot EXCEPT !.sleeps = @ + 1, !.slept = @ + BootstrapPause,
                            !.pc = "bootstrap"]
    /\ UNCHANGED <<cfg_vars, call, files, probe>>

\* the session is there and no helper has been applied yet
HelperReady == boot.pc = "ready" /\ probe = NoProbe

\* the longest byte sequence handed to parse_chunked_body as it is
MaxRawLen == 5

\* "0", "2", "f", CR, LF
RawBytes == {48, 50, 102, CR, LF}

RawInputs == UNION {[1..k -> RawBytes] : k \in 0..MaxRawLen}

\* parse_chunked_body(data) in a build with or without overflow checks
ApplyParseChunkedBody(data, checks) ==
    /\ HelperReady
    /\ probe' = [fn |-> "parse_chunked_body", data |-> data, checks |-> checks,
                 encoded |-> FALSE, chunks |-> <<>>,
                 out |-> parse_chunked_body(data, checks)]
    /\ UNCHANGED <<cfg_vars, call, files, boot>>

\* the longest payload that is encoded in chunks and decoded again
MaxPayload == 3

\* CR, LF, "0"
PayloadBytes == {CR, LF, 48}

\* seventeen bytes: a chunk whose size takes two hexadecimal digits
LongPayload == [i \in 1..17 |-> IF i % 2 = 0 THEN LF ELSE CR]

Payloads == UNION {[1..k -> PayloadBytes] : k \in 0..MaxPayload} \cup {LongPayload}

\* the splits of a payload: every one of a short payload, and of the long one the
\* single chunk and the split after its first byte
Cuts(payload) ==
    IF Len(payload) <= MaxPayload THEN SUBSET (1..(Len(payload) - 1)) ELSE {{}, {1}}

\* the elements of a set of numbers in ascending order
RECURSIVE SortedSeq(_)
SortedSeq(S) == IF S = {} THEN <<>> ELSE <<SetMin(S)>> \o SortedSeq(S \ {SetMin(S)})

\* the payload split into non-empty chunks after the positions in cuts
ChunksOf(payload, cuts) ==
    LET at == SortedSeq({0} \cup cuts \cup {Len(payload)})
    IN  [i \in 1..(Len(at) - 1) |-> SubSeq(payload, at[i] + 1, at[i + 1])]

\* the ASCII bytes of a number in hexadecimal
RECURSIVE to_hex(_)
to_hex(n) ==
    LET digit(d) == IF d < 10 THEN 48 + d ELSE 87 + d
    IN  IF n < 16 THEN <<digit(n)>> ELSE to_hex(n \div 16) \o <<digit(n % 16)>>

\* <hex size> CRLF <payload> CRLF for every chunk, then the terminator 0 CRLF CRLF
RECURSIVE encode_chunked(_)
encode_chunked(chunks) ==
    IF chunks = <<>> THEN <<48, CR, LF, CR, LF>>
    ELSE to_hex(Len(chunks[1])) \o <<CR, LF>> \o chunks[1] \o <<CR, LF>>
         \o encode_chunked(Tail(chunks))

RECURSIVE Flatten(_)
Flatten(chunks) == IF chunks = <<>> THEN <<>> ELSE chunks[1] \o Flatten(Tail(chunks))

\* parse_chunked_body applied to the chunked stream of a payload
ApplyDecodeEncoded(payload, cuts, checks) ==
    /\ HelperReady
    /\ probe' = [fn |-> "parse_chunked_body",
                 data |-> encode_chunked(ChunksOf(payload, cuts)), checks |-> checks,
                 encoded |-> TRUE, chunks |-> ChunksOf(payload, cuts),
                 out |-> parse_chunked_body(encode_chunked(ChunksOf(payload, cuts)), checks)]
    /\ UNCHANGED <<cfg_vars, call, files, boot>>

\* the request URLs and header blocks the filename is resolved for
FilenameUrls ==
    { <<"https", ":", "//", "x.example", "/", "reports", "/", "out.csv">>,
      <<"https", ":", "//", "x.example", "/", "reports", "/", "out.csv", "?", "dl", "=", "1">>,
      <<"https", ":", "//", "x.example", "/", "reports", "/">>,
      <<"https", ":", "//", "x.example", "/">>,
      <<"https", ":", "//", "x.example">> }

DispositionLines ==
    { <<"Content-Disposition", ":", " ", "attachment", ";", " ", "filename", "=", "\"",
        "data.json", "\"">>,
      <<"CONTENT-DISPOSITION", ":", " ", "inline", ";", " ", "filename", "=", "a.txt">>,
      <<"content-disposition", ":", " ", "attachment">>,
      <<"Content-Disposition", ":", " ", "attachment", ";", " ", "filename", "=", "\"",
        "\"">>,
      <<"Content-Disposition", ":", " ", "attachment", ";", " ", "filename", "=", "\"",
        "a.txt", "\"", ";", " ", "size", "=", "1">> }

HeaderBlocks ==
    { <<StatusLine("200", <<"OK">>)>> }
    \cup { <<StatusLine("200", <<"OK">>), l>> : l \in DispositionLines }

\* the filename download_file resolves for a header block and a parsed request URL
ApplyResolveFilename(lines, url) ==
    /\ HelperReady
    /\ probe' = [fn |-> "resolve_filename", lines |-> lines, url |-> url,
                 default |-> default_filename,
                 out |-> resolve_filename(lines, url_parse(url), default_filename)]
    /\ UNCHANGED <<cfg_vars, call, files, boot>>

\* the current URLs and Location values a redirect is resolved for
BaseUrls ==
    { UrlHttps,
      <<"https", ":", "//", "a.example", ":", "8443", "/", "dir", "/", "page">>,
      <<"https", ":", "//", "a.example", "/", "dir", "/", "page", "?", "x", "=", "1">>,
      <<"https", ":", "//", "a.example", "/">>,
      <<"https", ":", "//", "a.example", "/", "a", "/", "b", "/">> }

LocationValues ==
    { <<"/", "x">>, <<"y">>, <<"sub", "/", "y">>, <<"?", "q", "=", "1">>, <<>>,
      <<"//", "cdn.example", "/", "x">>,
      <<"https", ":", "//", "b.example", "/", "z">>,
      <<"http", ":", "//", "b.example", "/", "z">> }

\* the redirect target download_file builds from the current URL and a Location value
ApplyRedirectUrl(base, location) ==
    /\ HelperReady
    /\ probe' = [fn |-> "redirect_url", base |-> base, location |-> location,
                 out |-> redirect_url(url_parse(base), location)]
    /\ UNCHANGED <<cfg_vars, call, files, boot>>

\* the URLs whose requests are looked at: with a query, a fragment, both, and no path
RequestUrls ==
    { <<"https", ":", "//", "q.example", "/", "search", "?", "q", "=", "tor">>,
      <<"https", ":", "//", "q.example", "/", "search", "?", "q", "=", "tor", "#", "top">>,
      <<"https", ":", "//", "q.example", "/", "doc", "#", "s2">>,
      <<"https", ":", "//", "q.example", "?", "q", "=", "tor">>,
      <<"https", ":", "//", "q.example", ":", "8443", "/", "a", "/", "b">>,
      <<"https", ":", "//", "q.example">> }

\* the requests download_file and download_web_service format for a URL
ApplyRequest(url, method, headers, body) ==
    /\ HelperReady
    /\ probe' = [fn |-> "request", url |-> url, method |-> method,
                 file |-> file_request(url_parse(url)),
                 ws |-> ws_request(url_parse(url), method, headers, body)]
    /\ UNCHANGED <<cfg_vars, call, files, boot>>

(* the collect command (main.rs, handle_collect_command) *)

\* --method as the command line gives it (it has a default, so it is always given)
CollectMethods == {"GET", "get", "POST", "post", "Post", "PUT"}

\* --data-file: not given, a file that reads as text, a file that cannot be read
DataFiles ==
    { [some |-> FALSE, readable |-> FALSE, text |-> <<>>],
      [some |-> TRUE, readable |-> TRUE, text |-> <<"query", "=", "FILE">>],
      [some |-> TRUE, readable |-> FALSE, text |-> <<>>] }

\* mutant of is_web_service: the method is compared as it was typed
is_web_service_as_typed(method, data, data_file, headers) ==
    \/ method.some /\ method.v = "POST"
    \/ data.some
    \/ data_file.some
    \/ headers # <<>>

\* let is_web_service = method.map_or(false, |m| m.to_uppercase() == "POST")
\*     || data.is_some() || data_file.is_some() || !headers.is_empty()
is_web_service(method, data, data_file, headers) ==
    \/ method.some /\ to_uppercase(method.v) = "POST"
    \/ data.some
    \/ data_file.some
    \/ headers # <<>>

\* the branch handle_collect_command takes and the request the operation it calls
\* writes first; --data and --data-file exclude each other on the command line
ApplyCollect(url, method, headers, data, data_file) ==
    /\ HelperReady
    /\ ~(data.some /\ data_file.some)
    /\ LET body_data  == IF data_file.some
                         THEN [some |-> TRUE, text |-> data_file.text]
                         ELSE data
           method_str == IF method.some THEN method.v ELSE "GET"
           collect    == [fn |-> "collect", url |-> url, method |-> method,
                          headers |-> headers, data |-> data, data_file |-> data_file]
       IN  probe' =
             IF is_web_service(method, data, data_file, headers)
             THEN IF data_file.some /\ ~data_file.readable
                  THEN collect @@ [route |-> "download_web_service", called |-> FALSE,
                                   request |-> NoRequest,
                                   error |-> "Failed to read data file"]
                  ELSE collect @@ [route |-> "download_web_service", called |-> TRUE,
                                   request |-> ws_request(url_parse(url), method_str,
                                                          headers, body_data),
                                   error |-> ""]
             ELSE collect @@ [route |-> "download_file", called |-> TRUE,
                              request |-> file_request(url_parse(url)),
                              error |-> ""]
    /\ UNCHANGED <<cfg_vars, call, files, boot>>

\* new() has been called
HelperInit ==
    /\ Defaults
    /\ isolation_token = 0
    /\ call = [c \in {"c1"} |-> IdleCall]
    /\ files = <<>>
    /\ boot = Constructing
    /\ probe = NoProbe

HelperNext ==
    \/ \E bootstrapped \in BOOLEAN : Bootstrap(bootstrapped)
    \/ BootstrapSleep
    \/ \E name \in DefaultFilenameArgs : set_default_filename(name)
    \/ /\ HelperReady
       /\ \E data \in RawInputs, checks \in Builds : ApplyParseChunkedBody(data, checks)
    \/ /\ HelperReady
       /\ \E payload \in Payloads, checks \in Builds :
            \E cuts \in Cuts(payload) :
                ApplyDecodeEncoded(payload, cuts, checks)
    \/ /\ HelperReady
       /\ \E lines \in HeaderBlocks, url \in FilenameUrls : ApplyResolveFilename(lines, url)
    \/ /\ HelperReady
       /\ \E base \in BaseUrls, location \in LocationValues : ApplyRedirectUrl(base, location)
    \/ /\ HelperReady
       /\ \E url \in RequestUrls, method \in Methods, headers \in HeaderArgs,
             body \in BodyArgs : ApplyRequest(url, method, headers, body)
    \/ /\ HelperReady
       /\ \E method \in CollectMethods, headers \in HeaderArgs, data \in BodyArgs,
             data_file \in DataFiles :
            ApplyCollect(UrlHttps, [some |-> TRUE, v |-> method], headers, data,
                         data_file)

HelperSpec == HelperInit /\ [][HelperNext]_vars

(* --------------------- OpenAIClient (openai_client.rs) ------------------ *)

\* the values of a configuration document (YAML or JSON): a key that is absent, a
\* string, an integer, a number with a fraction (by its literal), a list
Absent == [kind |-> "absent", s |-> "", n |-> 0, items |-> <<>>]

Str(s) == [kind |-> "str", s |-> s, n |-> 0, items |-> <<>>]

Num(n) == [kind |-> "int", s |-> "", n |-> n, items |-> <<>>]

Float(literal) == [kind |-> "float", s |-> literal, n |-> 0, items |-> <<>>]

List(items) == [kind |-> "list", s |-> "", n |-> 0, items |-> items]

\* a chat message of a document: a map with the keys role and content
Message(role, content) == [role |-> Str(role), content |-> Str(content)]

default_timeout == 300

default_max_tokens == 1024

\* the f32 0.7, and the other temperatures, by their literals
default_temperature == "0.7"

\* Option<String>
None == [some |-> FALSE, v |-> ""]

Some(v) == [some |-> TRUE, v |-> v]

\* the documents the model loads: api_url always, the other keys present or absent,
\* well typed or not
Documents ==
    [ api_url     : {Str("http://localhost:8000/v1")},
      api_key     : {Absent, Str("sk-test")},
      model       : {Str("test-model")},
      prompt      : {Absent, Str("Extract names"), Num(7)},
      messages    : {Absent, Str("hello"), List(<<>>),
                     List(<<Message("system", "You are a test assistant"),
                            Message("user", "Extract names")>>)},
      max_tokens  : {Absent, Num(100)},
      temperature : {Absent, Float("0.5")} ]
    \cup
    [ api_url : {Str("http://localhost:8000/v1")}, api_key : {Absent}, model : {Absent},
      prompt : {Str("Extract names")}, messages : {Absent}, max_tokens : {Absent},
      temperature : {Absent} ]

\* a document value is a list of maps that hold a string role and a string content
IsMessages(value) ==
    /\ value.kind = "list"
    /\ \A i \in 1..Len(value.items) :
          value.items[i].role.kind = "str" /\ value.items[i].content.kind = "str"

\* ChatMessage { role, content } of each item, in the order of the document
ChatMessages(value) ==
    [i \in 1..Len(value.items) |->
        [role |-> value.items[i].role.s, content |-> value.items[i].content.s]]

\* mutant of PromptConfig: the document's `messages` are looked at first, and a list
\* is taken in reverse
PromptConfigChatFirst(doc) ==
    IF IsMessages(doc.messages)
    THEN [ok |-> TRUE, shape |-> "Chat", prompt |-> "",
          messages |-> [i \in 1..Len(doc.messages.items) |->
                          ChatMessages(doc.messages)[Len(doc.messages.items) + 1 - i]]]
    ELSE IF doc.prompt.kind = "str"
    THEN [ok |-> TRUE, shape |-> "Completion", prompt |-> doc.prompt.s, messages |-> <<>>]
    ELSE [ok |-> FALSE, shape |-> "", prompt |-> "", messages |-> <<>>]

\* #[serde(untagged)] enum PromptConfig: the variants are tried in their order, and the
\* first one whose fields the document gives is taken
PromptConfig(doc) ==
    IF doc.prompt.kind = "str"
    THEN [ok |-> TRUE, shape |-> "Completion", prompt |-> doc.prompt.s, messages |-> <<>>]
    ELSE IF IsMessages(doc.messages)
    THEN [ok |-> TRUE, shape |-> "Chat", prompt |-> "",
          messages |-> ChatMessages(doc.messages)]
    ELSE [ok |-> FALSE, shape |-> "", prompt |-> "", messages |-> <<>>]

\* struct GenerationParams: max_tokens and temperature with their serde defaults, the
\* Option fields None when absent
GenerationParams(doc) ==
    [ok          |-> /\ doc.max_tokens.kind \in {"absent", "int"}
                     /\ doc.max_tokens.n >= 0
                     /\ doc.temperature.kind \in {"absent", "float"},
     max_tokens  |-> IF doc.max_tokens.kind = "int" THEN doc.max_tokens.n
                     ELSE default_max_tokens,
     temperature |-> IF doc.temperature.kind = "float" THEN doc.temperature.s
                     ELSE default_temperature,
     top_p |-> None, n |-> None, stop |-> None, seed |-> None]

\* the configuration that failed to load
NoConfig == [ok |-> FALSE]

\* serde_yaml::from_str::<EnrichConfig> / serde_json::from_str::<EnrichConfig>
EnrichConfig(doc) ==
    LET prompt     == PromptConfig(doc)
        parameters == GenerationParams(doc)
    IN  IF \/ doc.api_url.kind # "str" \/ doc.model.kind # "str"
           \/ doc.api_key.kind \notin {"absent", "str"}
           \/ ~prompt.ok \/ ~parameters.ok
        THEN NoConfig
        ELSE [ok |-> TRUE, api_url |-> doc.api_url.s,
              api_key |-> IF doc.api_key.kind = "str" THEN Some(doc.api_key.s) ELSE None,
              model |-> doc.model.s, prompt |-> prompt, parameters |-> parameters,
              timeout_seconds |-> default_timeout]

\* the JSON body of a request: model, the prompt or the messages, and the two
\* parameters that are always sent; the Option parameters are sent when they are Some
request_body(config, key, value) ==
    [model |-> config.model, key |-> key, value |-> value,
     max_tokens |-> config.parameters.max_tokens,
     temperature |-> config.parameters.temperature,
     optional |-> {p \in {"top_p", "n", "stop", "seed"} : config.parameters[p].some}]

\* mutant of authorization: the header is sent with every request
authorization_always(config) ==
    IF config.api_key.some THEN Some("Bearer " \o config.api_key.v) ELSE Some("Bearer ")

\* req.header("Authorization", format!("Bearer {}", api_key)) when an API key is set
authorization(config) ==
    IF config.api_key.some THEN Some("Bearer " \o config.api_key.v) ELSE None

\* the POST that complete builds
complete_request(config) ==
    [method |-> "POST", url |-> config.api_url \o "/completions",
     body |-> request_body(config, "prompt", config.prompt.prompt),
     authorization |-> authorization(config), timeout |-> config.timeout_seconds]

\* the POST that chat_complete builds
chat_complete_request(config) ==
    [method |-> "POST", url |-> config.api_url \o "/chat/completions",
     body |-> request_body(config, "messages", config.prompt.messages),
     authorization |-> authorization(config), timeout |-> config.timeout_seconds]

\* response.status().is_success()
status_is_success(status) == status \in 200..299

\* a choice of a response body: a completion choice holds text, a chat choice a message
TextChoice(text) == [text |-> Some(text), message |-> None, role |-> ""]

MessageChoice(content) == [text |-> None, message |-> Some(content), role |-> "assistant"]

\* a response body: its text, whether it is JSON, whether it holds a `choices` list,
\* and the choices
ApiBody(text, json, has_choices, choices) ==
    [text |-> text, json |-> json, has_choices |-> has_choices, choices |-> choices]

\* what the API server may answer
ApiAnswers ==
    [ status : {200},
      body   : { ApiBody("<html>", FALSE, FALSE, <<>>),
                 ApiBody("{}", TRUE, FALSE, <<>>),
                 ApiBody("{choices:[]}", TRUE, TRUE, <<>>),
                 ApiBody("{choices:[A]}", TRUE, TRUE, <<TextChoice("A")>>),
                 ApiBody("{choices:[A,B]}", TRUE, TRUE, <<TextChoice("A"), TextChoice("B")>>),
                 ApiBody("{choices:['']}", TRUE, TRUE, <<TextChoice("")>>),
                 ApiBody("{choices:[C]}", TRUE, TRUE, <<MessageChoice("C")>>),
                 ApiBody("{choices:[C,D]}", TRUE, TRUE,
                         <<MessageChoice("C"), MessageChoice("D")>>) } ]
    \cup
    { [status |-> 201, body |-> ApiBody("{choices:[A]}", TRUE, TRUE, <<TextChoice("A")>>)],
      [status |-> 201, body |-> ApiBody("{choices:[C]}", TRUE, TRUE, <<MessageChoice("C")>>)],
      [status |-> 401, body |-> ApiBody("unauthorized", FALSE, FALSE, <<>>)],
      [status |-> 404, body |-> ApiBody("{choices:[A]}", TRUE, TRUE, <<TextChoice("A")>>)],
      [status |-> 500, body |-> ApiBody("", FALSE, FALSE, <<>>)] }

\* anyhow::bail!("API request failed with status {}: {}", status, error_text)
api_error(answer) == Err("API request failed with status", <<answer.status, answer.body.text>>)

\* response.json::<CompletionResponse>() / ::<ChatCompletionResponse>(): the body is
\* JSON with a `choices` list whose items hold the field the shape needs
parses_as(body, field) ==
    /\ body.json /\ body.has_choices
    /\ \A i \in 1..Len(body.choices) : body.choices[i][field].some

\* what complete returns for the answer to its request
complete(answer) ==
    IF ~status_is_success(answer.status) THEN api_error(answer)
    ELSE IF ~parses_as(answer.body, "text")
    THEN Err("Failed to parse completion response", <<>>)
    ELSE IF answer.body.choices = <<>> THEN Err("No completion returned", <<>>)
    ELSE Ok(answer.body.choices[1].text.v)

\* what chat_complete returns for the answer to its request
chat_complete(answer) ==
    IF ~status_is_success(answer.status) THEN api_error(answer)
    ELSE IF ~parses_as(answer.body, "message")
    THEN Err("Failed to parse chat completion response", <<>>)
    ELSE IF answer.body.choices = <<>> THEN Err("No chat completion returned", <<>>)
    ELSE Ok(answer.body.choices[1].message.v)

\* a configuration document is loaded
FromStr(doc) ==
    /\ probe = NoProbe
    /\ LET config == EnrichConfig(doc)
       IN  probe' = [fn |-> "enrich", pc |-> IF config.ok THEN "loaded" ELSE "done",
                     doc |-> doc, config |-> config, requests |-> <<>>,
                     out |-> IF config.ok THEN NoOutcome
                             ELSE Err("Failed to parse YAML configuration", <<>>)]
    /\ UNCHANGED <<cfg_vars, call, files, boot>>

\* enrich: match &config.prompt, build the request of the shape and send it; sent is
\* whether a response came back
EnrichSend(sent) ==
    /\ probe.fn = "enrich" /\ probe.pc = "loaded"
    /\ LET chat    == probe.config.prompt.shape = "Chat"
           request == IF chat THEN chat_complete_request(probe.config)
                      ELSE complete_request(probe.config)
           failed  == IF chat THEN "Failed to send chat completion request"
                      ELSE "Failed to send completion request"
       IN  probe' = [probe EXCEPT !.requests = Append(@, request),
                                  !.pc = IF sent THEN "sent" ELSE "done",
                                  !.out = IF sent THEN NoOutcome ELSE Err(failed, <<>>)]
    /\ UNCHANGED <<cfg_vars, call, files, boot>>

\* the response is read and turned into the result of enrich
EnrichReceive(answer) ==
    /\ probe.fn = "enrich" /\ probe.pc = "sent"
    /\ probe' = [fn |-> "enrich", pc |-> "done", doc |-> probe.doc,
                 config |-> probe.config, requests |-> probe.requests,
                 answer |-> answer,
                 out |-> IF probe.config.prompt.shape = "Chat" THEN chat_complete(answer)
                         ELSE complete(answer)]
    /\ UNCHANGED <<cfg_vars, call, files, boot>>

\* OpenAIClient::new() has returned and no configuration is loaded
EnrichInit ==
    /\ Defaults
    /\ isolation_token = SessionToken
    /\ call = [c \in {"c1"} |-> IdleCall]
    /\ files = <<>>
    /\ boot = Constructed
    /\ probe = NoProbe

EnrichNext ==
    \/ \E doc \in Documents : FromStr(doc)
    \/ \E sent \in BOOLEAN : EnrichSend(sent)
    \/ \E answer \in ApiAnswers : EnrichReceive(answer)

EnrichSpec == EnrichInit /\ [][EnrichNext]_vars

(* ------------------------------- claims -------------------------------- *)

\* the status code of a response: the number after the HTTP version, 0 when none
StatusCode(response) ==
    LET w == split_whitespace(status_line_of(response.lines))
    IN  IF Len(w) >= 2 /\ Len(w[2]) = 1 /\ w[2][1] \in DOMAIN DecimalTable
        THEN DecimalTable[w[2][1]] ELSE 0

\* the response has a header line of that name (given in lower case)
HasHeader(response, name) ==
    \E i \in 2..Len(response.lines) :
        LET line == response.lines[i]
        IN  Len(line) >= 2 /\ line[2] = ":" /\ to_lowercase(<<line[1]>>) = <<name>>

\* the text of a header value that follows `Name: `
HeaderValue(response, name) ==
    LET i == CHOOSE j \in 2..Len(response.lines) :
                 to_lowercase(<<response.lines[j][1]>>) = <<name>>
    IN  SubSeq(response.lines[i], 4, Len(response.lines[i]))

TooManyRedirects == Err("Too many redirects", <<>>)

\* the call has taken a step
Stepped(c) == call[c]' # call[c]

\* C1: with max-redirects = M >= 1, a chain of k <= M redirects is followed to its end:
\* "too many redirects" is raised only when the redirect count would exceed M, so a call
\* that has met no more than M redirects has not failed with it.
C1_ChainWithinBudgetFollowed ==
    \A c \in DOMAIN call :
        (call[c].op = "file" /\ max_redirects >= 1 /\ call[c].redirects <= max_redirects)
            => call[c].outcome # TooManyRedirects

C2_Inv ==
    \A c \in DOMAIN call :
        call[c].op = "file" =>
            /\ call[c].redirects \in 0..max_redirects
            /\ call[c].follows <= max_redirects
            /\ call[c].follows <= call[c].redirects
            /\ (call[c].redirects >= max_redirects => call[c].pc \in {"top", "done"})
            /\ (call[c].redirects >= max_redirects /\ call[c].pc = "done"
                    => call[c].outcome = TooManyRedirects)

C2_Step ==
    \A c \in DOMAIN call :
        (call[c].op = "file" /\ Stepped(c)) =>
            /\ call[c]'.redirects \in {call[c].redirects, call[c].redirects + 1}
            /\ (call[c]'.redirects = call[c].redirects + 1) <=>
                   (/\ call[c].pc = "interp"
                    /\ call[c].response.sep
                    /\ StatusCode(call[c].response) \in {301, 302, 303, 307, 308}
                    /\ HasHeader(call[c].response, "location"))
            /\ (call[c].pc = "top" /\ call[c].redirects >= max_redirects)
                   => call[c]'.outcome = TooManyRedirects

\* C2: the redirect count stays within 0..max-redirects and grows by exactly 1 on each
\* followed redirect; at most max-redirects follow requests are written; once the count
\* has reached the maximum the call sends nothing more and ends with "too many
\* redirects", never with a result.
C2_RedirectBudget == [](C2_Inv) /\ [][C2_Step]_vars

C2_Witness ==
    \E c \in DOMAIN call :
        /\ call[c].op = "file" /\ max_redirects = 2
        /\ call[c].redirects = 2 /\ call[c].follows = 1
        /\ call[c].outcome = TooManyRedirects

\* C3: every connection attempt of a call comes after a rate-limit sleep of the
\* configured duration taken since the attempt before it; a fetch-to-file call that ends
\* with a result after N redirects and P retries has slept N+P+1 times, and
\* fetch-to-memory sleeps once before its only connection.
C3_DelayBeforeEveryAttempt ==
    \A c \in DOMAIN call :
        /\ call[c].attempts <= call[c].delays
        /\ call[c].delays <= call[c].attempts + 1
        /\ (call[c].pc \in {"tls", "send", "recv", "interp", "pause", "write"}
                => call[c].delays = call[c].attempts)
        /\ (call[c].delays > 0 => call[c].last_delay = rate_limit_delay)
        /\ (call[c].op = "file" /\ call[c].outcome.kind = "ok"
                => /\ call[c].delays = call[c].redirects + call[c].pauses + 1
                   /\ call[c].attempts = call[c].delays)
        /\ (call[c].op = "mem" /\ call[c].attempts >= 1
                => call[c].delays = 1 /\ call[c].attempts = 1)

C3_Witness ==
    \E c \in DOMAIN call :
        /\ call[c].op = "file" /\ call[c].outcome.kind = "ok"
        /\ call[c].redirects = 2 /\ call[c].pauses = 1 /\ call[c].delays = 4

\* the pause the Retry-After header of a response stands for: its value when the header
\* holds one numeral, 60 when it is absent or holds anything else
ExpectedPause(response) ==
    IF HasHeader(response, "retry-after")
       /\ Len(HeaderValue(response, "retry-after")) = 1
       /\ HeaderValue(response, "retry-after")[1] \in DOMAIN DecimalTable
    THEN DecimalTable[HeaderValue(response, "retry-after")[1]]
    ELSE 60

C4_Inv ==
    \A c \in DOMAIN call :
        call[c].op = "file" =>
            /\ (call[c].pc = "pause" => call[c].retry_after = ExpectedPause(call[c].response))
            /\ (call[c].pc \in {"recv", "interp"}
                    => /\ call[c].requests = call[c].redirects + call[c].pauses + 1
                       /\ call[c].request_url = call[c].current_url)
            /\ call[c].requests <= call[c].redirects + call[c].pauses + 1

C4_Step ==
    \A c \in DOMAIN call :
        (call[c].op = "file" /\ Stepped(c)) =>
            /\ (call[c].pc = "interp" /\ call[c].response.sep
                /\ StatusCode(call[c].response) = 429)
                   => /\ call[c]'.pc = "pause"
                      /\ call[c]'.requests = call[c].requests
                      /\ call[c]'.current_url = call[c].current_url
                      /\ call[c]'.redirects = call[c].redirects
            /\ call[c].pc = "pause"
                   => /\ call[c]'.last_pause = ExpectedPause(call[c].response)
                      /\ call[c]'.pauses = call[c].pauses + 1
                      /\ call[c]'.current_url = call[c].current_url
                      /\ call[c]'.redirects = call[c].redirects
                      /\ call[c]'.requests = call[c].requests
                      /\ call[c]'.pc = "top"

\* C4: in fetch-to-file a 429 response is followed by a pause of the Retry-After value
\* in seconds when the header holds a non-negative integer, and of 60 seconds when it is
\* absent or holds something else (an HTTP date); the pause leaves the current URL and
\* the redirect count as they are, and one request per redirect and per pause, besides
\* the first, goes to the current URL.
C4_RetryAfterPause == [](C4_Inv) /\ [][C4_Step]_vars

\* C5: fetch-to-memory runs the status machine of fetch-to-file: it returns no 3xx
\* response as its result and does not end on a 429 response.
C5_WebServiceSharesMachine ==
    \A c \in DOMAIN call :
        (call[c].op = "mem" /\ call[c].pc = "done" /\ call[c].response.sep) =>
            /\ (call[c].outcome.kind = "ok"
                    => StatusCode(call[c].response) \notin {301, 302, 303, 307, 308})
            /\ StatusCode(call[c].response) # 429

\* C6: fetch-to-file ends successfully on every response whose status code is 2xx,
\* whatever its reason phrase: once such a response is interpreted the call is about to
\* write the file or has returned its name (or failed to decode or to create it).
C6_Every2xxSucceeds ==
    \A c \in DOMAIN call :
        (/\ call[c].op = "file" /\ call[c].pc # "interp" /\ call[c].response.sep
         /\ StatusCode(call[c].response) \in 200..299)
            => \/ call[c].pc \in {"write", "write_all"}
               \/ call[c].outcome.kind = "ok"
               \/ call[c].outcome.msg \in {"Invalid chunked encoding",
                                           "Failed to create output file",
                                           "Failed to write to output file"}

\* C7: neither operation returns a result, and fetch-to-file writes no file, for a
\* response whose status code is outside 200..299.
C7_NoSuccessOutside2xx ==
    \A c \in DOMAIN call :
        (call[c].outcome.kind = "ok" \/ call[c].pc = "write")
            => StatusCode(call[c].response) \in 200..299

\* C8: a response with status >= 400 other than 429 ends either operation at once with
\* an HTTP error that carries the status line of the response.
C8_ErrorCarriesStatusLine ==
    \A c \in DOMAIN call :
        (/\ call[c].op \in {"file", "mem"} /\ call[c].pc # "interp" /\ call[c].response.sep
         /\ StatusCode(call[c].response) >= 400 /\ StatusCode(call[c].response) # 429)
            => /\ call[c].pc = "done"
               /\ call[c].outcome.kind = "err"
               /\ call[c].outcome.detail = status_line_of(call[c].response.lines)

\* a redirect response that has no Location line
RedirectWithoutLocation(response) ==
    /\ response.sep
    /\ StatusCode(response) \in {301, 302, 303, 307, 308}
    /\ ~HasHeader(response, "location")

C9_Inv ==
    \A c \in DOMAIN call :
        (call[c].op = "file" /\ call[c].pc # "interp"
         /\ RedirectWithoutLocation(call[c].response))
            => /\ call[c].pc = "done"
               /\ call[c].outcome = Err("Redirect response without Location header", <<>>)

C9_Step ==
    \A c \in DOMAIN call :
        (call[c].op = "file" /\ call[c].pc = "interp" /\ Stepped(c)
         /\ RedirectWithoutLocation(call[c].response))
            => /\ call[c]'.redirects = call[c].redirects
               /\ call[c]'.requests = call[c].requests
               /\ call[c]'.attempts = call[c].attempts
               /\ call[c]'.pc = "done"

\* C9: in fetch-to-file a redirect status without a Location line, the name compared
\* without regard to case, ends the call with "Redirect response without Location
\* header": the redirect count stays, no request follows and nothing is returned.
C9_RedirectWithoutLocation ==
    /\ [](C9_Inv) /\ [][C9_Step]_vars
    /\ [][\A c \in DOMAIN call : call[c].pc = "done" => ~Stepped(c)]_vars

C9_Witness ==
    \E c \in DOMAIN call :
        /\ call[c].op = "file" /\ call[c].redirects = 1 /\ call[c].requests = 2
        /\ call[c].outcome = Err("Redirect response without Location header", <<>>)

Unsupported ==
    {"Only HTTPS is supported in this implementation",
     "Only HTTPS is supported for web services"}

\* the URL the call is at parses and its scheme is not https
NotHttps(c) ==
    LET url == IF call[c].op = "mem" THEN call[c].url ELSE call[c].current_url
    IN  url_parse(url).ok /\ url_parse(url).scheme # "https"

\* C10 as stated, for a call that got as far as its connection attempt: a call whose
\* current URL has a scheme other than https ends with the unsupported-scheme error.
C10_NotHttpsEndsUnsupported ==
    \A c \in DOMAIN call :
        (call[c].op # "idle" /\ call[c].pc = "done" /\ NotHttps(c) /\ call[c].attempts >= 1)
            => call[c].outcome.msg \in Unsupported

C10_Inv ==
    \A c \in DOMAIN call :
        (call[c].op # "idle" /\ NotHttps(c)) =>
            /\ call[c].stream # "tls"
            /\ call[c].pc \in {"top", "sleep", "connect", "tls", "done"}
            /\ call[c].request_url # call[c].current_url
            /\ (call[c].op = "mem" => call[c].handshakes = 0 /\ call[c].requests = 0)
            /\ (call[c].pc = "done" =>
                   call[c].outcome.msg \in
                       Unsupported \cup {"Failed to connect through Tor",
                                         "URL must have a host", "Too many redirects"})

C10_Step ==
    \A c \in DOMAIN call :
        (call[c].op # "idle" /\ NotHttps(c) /\ Stepped(c)) =>
            /\ call[c]'.handshakes = call[c].handshakes
            /\ call[c]'.requests = call[c].requests
            /\ call[c].pc = "tls"
                   => call[c]'.pc = "done" /\ call[c]'.outcome.msg \in Unsupported

\* C10 amended: while the current URL of a call has a scheme other than https no TLS
\* handshake is made and no request is written, also after a redirect to an absolute
\* http:// Location; once the transport has connected the call ends with the
\* unsupported-scheme error, and before that with the error met first (no host, the
\* redirect budget, the connection).
C10_NoTlsNoRequestOffHttps == [](C10_Inv) /\ [][C10_Step]_vars

C10_Witness ==
    \E c \in DOMAIN call :
        /\ call[c].op = "file" /\ NotHttps(c) /\ call[c].redirects = 1
        /\ call[c].handshakes = 1 /\ call[c].requests = 1 /\ call[c].attempts = 2
        /\ call[c].outcome.msg \in Unsupported

C11_Inv ==
    /\ isolation_token = SessionToken
    /\ \A c \in DOMAIN call :
         call[c].attempts >= 1 => call[c].stream_token = isolation_token

\* C11: the isolation token of the session stays the one new() created through every
\* setter and every call of either operation, whatever the redirects, 429 retries and
\* errors, and every stream a call asks the transport for, to any host, is asked for
\* under that token.
C11_TokenFixed == [](C11_Inv) /\ [][isolation_token' = isolation_token]_vars

C11_Witness ==
    \E c \in DOMAIN call :
        /\ call[c].op = "file" /\ call[c].stream = "open"
        /\ call[c].attempts = 3 /\ call[c].pauses = 1
        /\ call[c].parsed_url.host = "b.example"
        /\ call[c].stream_token = SessionToken
        /\ max_redirects = 2 /\ default_filename = <<>>

ConnectError == Err("Failed to connect through Tor", <<>>)

TlsError == Err("Failed to establish TLS connection", <<>>)

C13_Step ==
    \A c \in DOMAIN call :
        LET r == call[c]
            n == call[c]'
        IN  /\ (n.attempts = r.attempts + 1 /\ n.stream # "open")
                => (n.pc = "done" /\ n.outcome = ConnectError)
            /\ (n.handshakes = r.handshakes + 1 /\ n.stream # "tls")
                => (n.pc = "done" /\ n.outcome = TlsError)
            /\ r.pc = "done" => n = r

\* C13: a connect through the transport that fails ends the call with the connection
\* error, and a TLS handshake that fails ends it with the handshake error: the call is
\* over at that step, and a call that is over connects, sleeps and sends no more.
C13_NoRetryAfterConnectFailure == [][C13_Step]_vars

C13_Witness ==
    \E c \in DOMAIN call :
        /\ call[c].op = "file" /\ call[c].pc = "done"
        /\ call[c].outcome = ConnectError
        /\ call[c].redirects = 1 /\ call[c].attempts = 2 /\ call[c].requests = 1

HasLine(request, line) == \E i \in 1..Len(request.lines) : request.lines[i] = line

\* C14: every request either operation has sent holds the header line
\* `Connection: close`, and no stream has carried more than one request.
C14_ConnectionClose ==
    \A c \in DOMAIN call :
        call[c].requests >= 1
            => /\ HasLine(call[c].request, <<"Connection", ":", " ", "close">>)
               /\ call[c].stream_requests <= 1

C12_Inv ==
    /\ boot.attempts <= 3
    /\ boot.slept = 5 * boot.sleeps
    /\ boot.pc = "bootstrap" => (boot.attempts < 3 /\ boot.sleeps = boot.attempts)
    /\ boot.pc = "sleep" => (boot.attempts < 3 /\ boot.sleeps = boot.attempts - 1)
    /\ boot.pc = "ready"
         => (boot.sleeps = boot.attempts - 1 /\ isolation_token = SessionToken)
    /\ boot.pc = "failed" => (boot.attempts = 3 /\ boot.sleeps = 2)

C12_Step ==
    /\ boot.pc \in {"ready", "failed"} => boot' = boot
    /\ boot.pc = "bootstrap" /\ boot' # boot
         => (boot'.attempts = boot.attempts + 1 /\ boot'.sleeps = boot.sleeps)
    /\ boot.pc = "sleep" /\ boot' # boot
         => (boot'.pc = "bootstrap" /\ boot'.attempts = boot.attempts)

\* C12: new() tries the bootstrap at most 3 times and sleeps 5 seconds between two
\* attempts, never after the last: a session is returned at the first attempt that
\* succeeds, after as many sleeps as attempts failed (0, 1 or 2), and the bootstrap error
\* is returned only when the third attempt has failed, after 2 sleeps.
C12_BootstrapRetries == [](C12_Inv) /\ [][C12_Step]_vars

C12_Witness ==
    boot.pc = "ready" /\ boot.attempts = 3 /\ boot.sleeps = 2 /\ boot.slept = 10

\* C15: parse_chunked_body gives back exactly the payload of a chunked stream made of
\* `<hex size> CRLF <chunk> CRLF` for every chunk of a split of the payload into
\* non-empty chunks and the terminator `0 CRLF CRLF`; for the empty payload the stream
\* is the terminator alone and the result is empty.
C15_ChunkedRoundTrip ==
    (probe.fn = "parse_chunked_body" /\ probe.encoded)
        => (probe.out.ok /\ probe.out.bytes = Flatten(probe.chunks))

C15_Witness ==
    /\ probe.fn = "parse_chunked_body" /\ probe.encoded
    /\ probe.chunks = <<<<CR>>, Tail(LongPayload)>>
    /\ probe.data = <<49, CR, LF, CR, CR, LF, 49, 48, CR, LF>> \o Tail(LongPayload)
                     \o <<CR, LF, 48, CR, LF, CR, LF>>
    /\ probe.out.bytes = LongPayload

\* the hexadecimal number of a chunk size line, of any size: [ok, value]
HexSize(line) ==
    LET ds == SelectSeq(line, LAMBDA b : b \notin WhiteBytes)
    IN  IF ds # <<>> /\ (\A i \in 1..Len(ds) : HexDigit(ds[i]) >= 0)
        THEN [ok |-> TRUE, value |-> HexValue(ds)]
        ELSE [ok |-> FALSE, value |-> 0]

\* how a chunked stream ends when read from pos (counted from 0) chunk by chunk:
\* "terminator" at a chunk of size 0, "short" at a chunk that declares more bytes than
\* follow its size line, "end" when the data ends before another size line, "bad" at a
\* size line that is no hexadecimal number or has no CRLF
RECURSIVE StreamEnd(_, _)
StreamEnd(data, pos) ==
    IF pos >= Len(data) THEN "end"
    ELSE LET line_end == crlf_position(data, pos)
             size     == HexSize(SubSeq(data, pos + 1, pos + line_end))
             payload  == pos + line_end + 2
         IN  IF line_end < 0 \/ ~size.ok THEN "bad"
             ELSE IF size.value = 0 THEN "terminator"
             ELSE IF size.value > Len(data) - payload THEN "short"
             ELSE StreamEnd(data, payload + size.value + 2)

\* C16: parse_chunked_body returns an error, and no bytes, for every input in which a
\* chunk declares more bytes than remain after its size line.
C16_TruncatedChunkFails ==
    (probe.fn = "parse_chunked_body" /\ StreamEnd(probe.data, 0) = "short")
        => (~probe.out.ok /\ ~probe.out.panic)

\* C17: parse_chunked_body returns bytes only when the decoding ended at a chunk of size
\* zero: a body cut off before the terminator, and the empty body, give an error.
C17_OkOnlyAtTerminator ==
    (probe.fn = "parse_chunked_body" /\ probe.out.ok)
        => StreamEnd(probe.data, 0) = "terminator"

\* the Location value is an absolute http or https URL
IsAbsoluteHttp(location) ==
    \/ starts_with(location, <<"http", ":", "//">>)
    \/ starts_with(location, <<"https", ":", "//">>)

\* what follows the authority of a URL text: its path and query
AfterAuthority(u) == SubSeq(u, IF Len(u) >= 6 /\ u[5] = ":" THEN 7 ELSE 5, Len(u))

\* C18: the redirect target of fetch-to-file is the Location itself when that is an
\* absolute http(s) URL; the scheme and host of the current URL followed by the Location
\* when that begins with `/`; and otherwise the scheme and host of the current URL
\* followed by its path with the last segment replaced by the Location.  For the current
\* URL https://a.example/dir/page: `/x` gives https://a.example/x, `y` gives
\* https://a.example/dir/y, and https://b.example/z is kept.
C18_RedirectResolution ==
    probe.fn = "redirect_url"
        => LET base     == url_parse(probe.base)
               location == probe.location
               out      == probe.out
               origin   == <<base.scheme, ":", "//", base.host>>
           IN  /\ IsAbsoluteHttp(location) => out = location
               /\ (~IsAbsoluteHttp(location) /\ Len(location) >= 1
                      /\ location[1] \in {"/", "//"})
                    => (SubSeq(out, 1, 4) = origin /\ AfterAuthority(out) = location)
               /\ (~IsAbsoluteHttp(location)
                      /\ ~(Len(location) >= 1 /\ location[1] \in {"/", "//"}))
                    => /\ SubSeq(out, 1, 4) = origin
                       /\ AfterAuthority(out)
                            = SubSeq(base.path, 1, LastSlash(base.path)) \o location
               /\ (probe.base = UrlHttps /\ location = <<"/", "x">>)
                    => out = <<"https", ":", "//", "a.example", "/", "x">>
               /\ (probe.base = UrlHttps /\ location = <<"y">>)
                    => out = <<"https", ":", "//", "a.example", "/", "dir", "/", "y">>
               /\ (probe.base = UrlHttps
                      /\ location = <<"https", ":", "//", "b.example", "/", "z">>)
                    => out = <<"https", ":", "//", "b.example", "/", "z">>

C18_Witness ==
    /\ probe.fn = "redirect_url"
    /\ probe.base = UrlHttps /\ probe.location = <<"y">>
    /\ probe.out = <<"https", ":", "//", "a.example", "/", "dir", "/", "y">>

\* the last segment of a path that is not empty, <<>> when every segment is empty
LastNonEmptySegment(path) ==
    LET at == {i \in 1..Len(path) : path[i] \notin {"/", "//"}}
    IN  IF at = {} THEN <<>> ELSE <<path[SetMax(at)]>>

\* C19: the filename fetch-to-file resolves is the Content-Disposition filename when the
\* headers give one that is not empty, whatever the URL; otherwise the last non-empty
\* segment of the path of the request URL (out.csv for /reports/out.csv, reports for
\* /reports/); otherwise, for the path `/`, the configured default filename.
C19_FilenamePriority ==
    probe.fn = "resolve_filename"
        => LET named   == extract_filename_from_headers(probe.lines)
               segment == LastNonEmptySegment(url_parse(probe.url).path)
           IN  probe.out = IF named.some THEN named.name
                           ELSE IF segment # <<>> THEN segment
                           ELSE probe.default

\* C20: the filename resolver returns no empty name, for every header block, every
\* request URL and every default filename the setter can have set.
C20_FilenameNeverEmpty == probe.fn = "resolve_filename" => probe.out # <<>>

\* a path that names a file directly in the working directory: no directory separator
\* in it, and not the parent directory
PlainFileName(name) == ~contains(name, <<"/">>) /\ name \notin {<<"..">>, <<".">>}

\* C21: fetch-to-file creates files only directly in the working directory: whatever
\* the response headers and the URL, the path of every file the call has created is a
\* plain file name, without a directory separator and without a parent reference.
C21_WritesInsideWorkingDirectory == \A name \in DOMAIN files : PlainFileName(name)

\* the body a response carries after its header separator, chunk-decoded when the
\* response has a `Transfer-Encoding: chunked` line
DecodedBody(response) ==
    IF /\ HasHeader(response, "transfer-encoding")
       /\ to_lowercase(trim(HeaderValue(response, "transfer-encoding"))) = <<"chunked">>
    THEN parse_chunked_body(response.body, TRUE).bytes
    ELSE response.body

\* C22: the bytes fetch-to-file writes are exactly the decoded body of the final
\* response of the call: chunk-decoded when it has Transfer-Encoding: chunked, else the
\* bytes after the header separator; bodies of redirect and 429 responses met on the
\* way never reach the file.
C22_FileHoldsDecodedBody ==
    \A c \in DOMAIN call :
        (call[c].op = "file" /\ call[c].outcome.kind = "ok") =>
            /\ call[c].filename \in DOMAIN files
            /\ files[call[c].filename] = DecodedBody(call[c].response)

\* the errors that tell the caller the response was no complete HTTP response
InvalidResponseErrors ==
    {"Invalid HTTP response", "Invalid HTTP response: no body delimiter found",
     "Empty response"}

\* C23: when the received bytes hold no CRLF CRLF separator, either operation fails
\* with an invalid-response error whatever the partial status line says, returns no
\* body and writes no file.
C23_Step ==
    \A c \in DOMAIN call :
        (call[c].pc = "interp" /\ ~call[c].response.sep /\ Stepped(c)) =>
            /\ call[c]'.pc = "done"
            /\ call[c]'.outcome.kind = "err"
            /\ call[c]'.outcome.msg \in InvalidResponseErrors
            /\ call[c]'.body = <<>>
            /\ files' = files

C23_NoSeparatorIsInvalidResponse == [][C23_Step]_vars

\* C24: fetch-to-memory has no storage side effect: no step of such a call creates,
\* truncates or writes a file, whatever its outcome; a successful call returns the body
\* together with the suggested filename.
C24_Step ==
    \A c \in DOMAIN call :
        ((call[c].op = "mem" \/ call[c]'.op = "mem") /\ Stepped(c)) =>
            /\ files' = files
            /\ (call[c]'.outcome.kind = "ok" /\ call[c].outcome.kind # "ok") =>
                   /\ call[c]'.body = DecodedBody(call[c].response)
                   /\ call[c]'.outcome.detail = call[c]'.filename

C24_NoStorageSideEffect ==
    [](\A c \in DOMAIN call : call[c].op = "mem" => files = <<>>) /\ [][C24_Step]_vars

C24_Witness ==
    \E c \in DOMAIN call :
        /\ call[c].op = "mem" /\ call[c].outcome.kind = "ok"
        /\ call[c].body = PlainBody /\ call[c].filename # <<>>
        /\ files = <<>>

\* C25: calls that run side by side on one session do not interfere through call
\* state: a step of one call (a redirect, a 429 retry, an error) leaves the other call's
\* URL, redirect count, stream and outcome, and the session's redirect budget, as they
\* were; each call has a stream of its own, and every stream was asked for with the
\* session's one isolation token.
C25_Inv ==
    \A c \in DOMAIN call :
        call[c].attempts > 0 => call[c].stream_token = isolation_token

C25_Step ==
    /\ cfg_vars' = cfg_vars
    /\ \A c, d \in DOMAIN call : (c # d /\ Stepped(c)) => call[d]' = call[d]

C25_CallsDoNotInterfere == [](C25_Inv) /\ [][C25_Step]_vars

\* both calls are under way, one after two redirects and one in a Retry-After pause
C25_Witness ==
    /\ call["c1"].op = "file" /\ call["c1"].pc = "recv" /\ call["c1"].redirects = 2
    /\ call["c2"].op = "file" /\ call["c2"].pc = "pause" /\ call["c2"].redirects = 0
    /\ call["c1"].stream_token = call["c2"].stream_token
    /\ call["c1"].current_url # call["c2"].current_url

\* C26: when two fetch-to-file calls resolve to the same filename and both have
\* returned it, the file holds exactly the body of one of the two calls, under every
\* interleaving of their create and write steps: never a mixture of bytes from both.
C26_SameNameHoldsOneBody ==
    \A c, d \in DOMAIN call :
        (/\ c # d
         /\ call[c].op = "file" /\ call[c].outcome.kind = "ok"
         /\ call[d].op = "file" /\ call[d].outcome.kind = "ok"
         /\ call[c].filename = call[d].filename)
            => files[call[c].filename] \in {call[c].body, call[d].body}

\* the stream of the call is open
StreamOpen(r) == r.stream \in {"open", "tls"}

\* C27: within a call the steps are strictly sequential: a connection is made only
\* when no stream of the call is open and the response before it has been interpreted
\* and dropped, and it goes to the host and port of the call's current URL; a request
\* is written only to a stream that has carried none, with no response pending; and
\* the current URL changes only when a redirect response is interpreted, to the URL
\* its Location gives.
C27_Step ==
    \A c \in DOMAIN call :
        LET r == call[c]
            n == call[c]'
            target == url_parse(r.current_url)
        IN  (r.op \in {"file", "mem"} /\ Stepped(c)) =>
                /\ (n.attempts # r.attempts) =>
                       /\ n.attempts = r.attempts + 1
                       /\ ~StreamOpen(r)
                       /\ r.response = NoResponse
                       /\ r.requests = r.attempts
                       /\ n.stream_host = target.host
                       /\ n.stream_port = port_or_default(target)
                /\ (n.requests # r.requests) =>
                       /\ n.requests = r.requests + 1
                       /\ n.attempts = n.requests
                       /\ r.stream = "tls" /\ r.stream_requests = 0
                       /\ r.response = NoResponse
                       /\ n.request_url = r.current_url
                /\ (n.response # r.response /\ n.response # NoResponse) =>
                       r.pc = "recv" /\ r.requests = r.attempts
                /\ (n.current_url # r.current_url) =>
                       /\ r.pc = "interp" /\ r.op = "file"
                       /\ HasHeader(r.response, "location")
                       /\ n.current_url =
                              redirect_url(r.parsed_url, HeaderValue(r.response, "location"))

C27_Inv ==
    \A c \in DOMAIN call :
        /\ call[c].attempts - call[c].requests \in {0, 1}
        /\ (StreamOpen(call[c]) /\ call[c].pc # "done") => call[c].response = NoResponse

C27_StepsAreSequential == [](C27_Inv) /\ [][C27_Step]_vars

\* the third connection of a call, made to the target of the second redirect
C27_Witness ==
    \E c \in DOMAIN call :
        /\ call[c].op = "file" /\ call[c].pc = "tls" /\ call[c].attempts = 3
        /\ call[c].redirects = 2 /\ call[c].stream_host = "b.example"

\* a configuration has been loaded and enrich has been given it
Enriching == probe.fn = "enrich" /\ probe.config.ok

\* the answer of the API server has been read
Answered == Enriching /\ probe.pc = "done" /\ "answer" \in DOMAIN probe

\* the text of a choice: its text in the completion shape, the content of its message
\* in the chat shape
ChoiceText(choice, shape) == IF shape = "Chat" THEN choice.message.v ELSE choice.text.v

\* C28: enrich sends exactly one request, a POST to <api_url>/completions for a string
\* prompt and to <api_url>/chat/completions for a message list, with an Authorization
\* bearer header exactly when an API key is configured; it returns the text of the
\* first choice; a status that is no success gives the API error with the status and
\* the response body, and a success response without choices gives an error.
C28_EnrichOnePost ==
    Enriching =>
        /\ Len(probe.requests) = IF probe.pc = "loaded" THEN 0 ELSE 1
        /\ \A i \in 1..Len(probe.requests) :
              LET request == probe.requests[i]
              IN  /\ request.method = "POST"
                  /\ request.url = probe.config.api_url \o
                        (IF probe.doc.prompt.kind = "str" THEN "/completions"
                         ELSE "/chat/completions")
                  /\ request.authorization.some <=> probe.doc.api_key.kind = "str"
                  /\ request.authorization.some =>
                        request.authorization.v = "Bearer " \o probe.doc.api_key.s
        /\ Answered =>
              LET answer == probe.answer
                  shape  == probe.config.prompt.shape
              IN  /\ answer.status \notin 200..299 =>
                        /\ probe.out.kind = "err"
                        /\ probe.out.detail = <<answer.status, answer.body.text>>
                  /\ (answer.status \in 200..299 /\ answer.body.choices = <<>>) =>
                        probe.out.kind = "err"
                  /\ probe.out.kind = "ok" =>
                        /\ answer.status \in 200..299
                        /\ answer.body.choices # <<>>
                        /\ probe.out.detail = ChoiceText(answer.body.choices[1], shape)
                  /\ (/\ answer.status \in 200..299 /\ answer.body.choices # <<>>
                      /\ parses_as(answer.body, IF shape = "Chat" THEN "message" ELSE "text"))
                        => probe.out.kind = "ok"

\* a chat request with a key, answered by two choices
C28_Witness ==
    /\ Answered
    /\ probe.config.prompt.shape = "Chat" /\ probe.config.api_key.some
    /\ probe.requests[1].url = "http://localhost:8000/v1/chat/completions"
    /\ Len(probe.answer.body.choices) = 2
    /\ probe.out = Ok("C")

\* the generation parameter a document gives, or its default
Given(value, default) ==
    IF value.kind = "int" THEN value.n ELSE IF value.kind = "float" THEN value.s ELSE default

\* C29: the prompt configuration is told apart by its structure: a document with a
\* `messages` list and no `prompt` key loads as the Chat shape, the messages in their
\* order with roles and contents kept; a document with a string `prompt` loads as the
\* Completion shape; generation parameters the document does not give take their
\* defaults and the given ones (max_tokens, temperature) are kept.
C29_PromptShapeByStructure ==
    probe.fn = "enrich" =>
        LET doc    == probe.doc
            config == probe.config
        IN  /\ (IsMessages(doc.messages) /\ doc.prompt.kind = "absent"
                /\ doc.model.kind = "str") =>
                   /\ config.ok /\ config.prompt.shape = "Chat"
                   /\ Len(config.prompt.messages) = Len(doc.messages.items)
                   /\ \A i \in 1..Len(doc.messages.items) :
                         /\ config.prompt.messages[i].role = doc.messages.items[i].role.s
                         /\ config.prompt.messages[i].content =
                                doc.messages.items[i].content.s
            /\ (doc.prompt.kind = "str" /\ doc.model.kind = "str") =>
                   /\ config.ok /\ config.prompt.shape = "Completion"
                   /\ config.prompt.prompt = doc.prompt.s
            /\ config.ok =>
                   /\ config.parameters.max_tokens = Given(doc.max_tokens, 1024)
                   /\ config.parameters.temperature = Given(doc.temperature, "0.7")
                   /\ \A p \in {"top_p", "n", "stop", "seed"} : ~config.parameters[p].some

\* the document of test_config_parsing with its temperature left out
C29_Witness ==
    /\ probe.fn = "enrich" /\ probe.config.ok
    /\ probe.doc.prompt.kind = "absent"
    /\ probe.config.prompt.shape = "Chat" /\ Len(probe.config.prompt.messages) = 2
    /\ probe.config.prompt.messages[1].role = "system"
    /\ probe.config.prompt.messages[2].role = "user"
    /\ probe.config.parameters.max_tokens = 100
    /\ probe.config.parameters.temperature = "0.7"

\* the value of the `filename=` attribute of a Content-Disposition line: the text after
\* `filename=` up to the next `;`, without the quotes around it
FilenameAttribute(line) ==
    LET k     == find(line, <<"filename", "=">>)
        rest  == SubSeq(line, k + 2, Len(line))
        semi  == find(rest, <<";">>)
        value == trim(IF semi = 0 THEN rest ELSE SubSeq(rest, 1, semi - 1))
    IN  IF k = 0 THEN <<>> ELSE trim_matches(trim_matches(value, "\""), "'")

\* C30: for a header block whose Content-Disposition line (name in any case) has a
\* `filename=` attribute, the filename extracted is the value of the attribute with the
\* quotes around it removed and cut at the next `;`: no quote character and no later
\* parameter is in it.
C30_FilenameAttributeExtracted ==
    probe.fn = "resolve_filename" =>
        \A i \in 1..Len(probe.lines) :
            (/\ starts_with(to_lowercase(probe.lines[i]), <<"content-disposition", ":">>)
             /\ FilenameAttribute(probe.lines[i]) # <<>>)
                => probe.out = FilenameAttribute(probe.lines[i])

\* C31: the response is split at the first CRLF CRLF of the received bytes: the body
\* handed to decoding is the byte sequence that follows the separator, for every
\* response, those with header bytes that are no UTF-8 text included; no response makes
\* the split fail.
C31_Step ==
    \A c \in DOMAIN call :
        (call[c].pc = "interp" /\ call[c].response.sep /\ Stepped(c)) =>
            /\ call[c]'.outcome.kind # "panic"
                   \/ is_chunked(call[c].response.lines)
            /\ (call[c]'.pc = "write" /\ ~is_chunked(call[c].response.lines)) =>
                   call[c]'.body = call[c].response.body

C31_SplitAtRawSeparator == [][C31_Step]_vars

\* the value of the first header field of that name (given in lower case), without
\* the optional whitespace around it; <<>> when the response has no such field
FieldValue(response, name) ==
    LET at == {i \in 2..Len(response.lines) :
                 /\ Len(response.lines[i]) >= 2 /\ response.lines[i][2] = ":"
                 /\ to_lowercase(<<response.lines[i][1]>>) = <<name>>}
    IN  IF at = {} THEN <<>>
        ELSE trim(SubSeq(response.lines[SetMin(at)], 3, Len(response.lines[SetMin(at)])))

\* the response has a Transfer-Encoding field whose value is chunked
ChunkedResponse(response) ==
    to_lowercase(FieldValue(response, "transfer-encoding")) = <<"chunked">>

\* C32: the body of a successful response is chunk-decoded if and only if the
\* response has a Transfer-Encoding header whose value is chunked, the name in any
\* case and with or without whitespace after the colon; otherwise the body is used as
\* it is.
C32_Step ==
    \A c \in DOMAIN call :
        (/\ call[c].pc = "interp" /\ Stepped(c)
         /\ lossy_growth(call[c].response.lines) = 0
         /\ call[c]'.pc = "write" \/ call[c]'.outcome.kind = "ok") =>
            call[c]'.body =
                IF ChunkedResponse(call[c].response)
                THEN parse_chunked_body(call[c].response.body, TRUE).bytes
                ELSE call[c].response.body

C32_ChunkedIffHeader == [][C32_Step]_vars

ErrorsBeforeCreate ==
    {"Failed to parse URL", "URL must have a host", "Failed to connect through Tor",
     "Failed to establish TLS connection",
     "Only HTTPS is supported in this implementation",
     "Failed to send HTTPS request", "Failed to read response", "Invalid HTTP response",
     "HTTP request failed", "Too many redirects",
     "Redirect response without Location header", "Invalid chunked encoding",
     "Failed to create output file"}

\* C34: fetch-to-file creates or truncates its output file only after a response was
\* classified as successful and its body decoded: a step changes the files only when
\* the call holds a decoded body and a resolved filename, no redirect or 429 iteration
\* changes them, and a call that ended with an error of the stages before has left no
\* file.
C34_Step ==
    files' # files =>
        \E c \in DOMAIN call :
            /\ call[c].op = "file" /\ call[c].pc \in {"write", "write_all"}
            /\ call[c].response.sep /\ is_success(call[c].response.lines)
            /\ call[c].filename # <<>>
            /\ DOMAIN files' = DOMAIN files \cup {call[c].filename}

C34_Inv ==
    \A c \in DOMAIN call :
        \/ call[c].pc \in {"idle", "top", "sleep", "connect", "tls", "send", "recv",
                           "interp", "pause", "write"}
        \/ call[c].outcome.kind = "panic"
        \/ call[c].outcome.kind = "err" /\ call[c].outcome.msg \in ErrorsBeforeCreate
        => files = <<>>

C34_FileOnlyAfterSuccess == [](C34_Inv) /\ [][C34_Step]_vars

\* a call that followed a redirect and paused on a 429 has created its file
C34_Witness ==
    \E c \in DOMAIN call :
        /\ call[c].op = "file" /\ call[c].pc = "write_all"
        /\ call[c].redirects = 1 /\ call[c].pauses = 1
        /\ files = (call[c].filename :> <<>>)

\* C35: with max-redirects = 0 fetch-to-file fails with `Too many redirects` before
\* any rate-limit delay, URL parsing or connection attempt, for every URL; and the
\* budget test runs at the top of every loop iteration, before the rate-limit delay:
\* a call that ends with that error has slept once per connection attempt and not
\* once more.
C35_Inv ==
    \A c \in DOMAIN call :
        /\ (call[c].op = "file" /\ max_redirects = 0) =>
              /\ call[c].pc \in {"top", "done"}
              /\ call[c].delays = 0 /\ call[c].attempts = 0
              /\ call[c].parsed_url = NoUrl /\ call[c].stream = "none"
              /\ call[c].pc = "done" => call[c].outcome = TooManyRedirects
        /\ (call[c].op = "file" /\ call[c].outcome = TooManyRedirects) =>
              call[c].delays = call[c].attempts

C35_Step ==
    \A c \in DOMAIN call :
        (call[c].op = "file" /\ call[c].pc = "top" /\ Stepped(c)) =>
            /\ call[c]'.delays = call[c].delays
            /\ call[c].redirects >= max_redirects <=> call[c]'.outcome = TooManyRedirects
            /\ call[c].redirects < max_redirects <=> call[c]'.pc = "sleep"

C36_NoOverflowNoPanic ==
    probe.fn = "parse_chunked_body" => ~probe.out.panic

\* the path of a URL text: what lies between its authority and the first `?` or `#`,
\* `/` when nothing does
PathOf(u) ==
    LET rest == AfterAuthority(u)
        stop == {i \in 1..Len(rest) : rest[i] \in {"?", "#"}}
        path == IF stop = {} THEN rest ELSE SubSeq(rest, 1, SetMin(stop) - 1)
    IN  IF path = <<>> THEN <<"/">> ELSE path

\* C37: in both operations the request target on the request line is exactly the path
\* of the URL, `/` when the path is empty: the query string and the fragment of the
\* URL are in no line of the request that is sent.
C37_TargetIsPathOnly ==
    probe.fn = "request" =>
        /\ probe.file.lines[1] =
               <<"GET", " ">> \o PathOf(probe.url) \o <<" ", "HTTP", "/", "1.1">>
        /\ probe.ws.lines[1] =
               <<to_uppercase(probe.method), " ">> \o PathOf(probe.url)
                   \o <<" ", "HTTP", "/", "1.1">>
        /\ \A request \in {probe.file, probe.ws} :
              \A i \in 1..Len(request.lines) :
                  /\ ~contains(request.lines[i], <<"q", "=", "tor">>)
                  /\ ~contains(request.lines[i], <<"#">>)

C37_Witness ==
    /\ probe.fn = "request"
    /\ contains(probe.url, <<"?", "q", "=", "tor", "#", "top">>)
    /\ probe.file.lines[1] = <<"GET", " ", "/", "search", " ", "HTTP", "/", "1.1">>
    /\ probe.ws.lines[1] = <<"POST", " ", "/", "search", " ", "HTTP", "/", "1.1">>

\* C38: a relative redirect (a Location that is no absolute http(s) URL) is rebuilt
\* from the scheme and the host of the current URL only: when the current URL has an
\* explicit port, the target has none, and the follow request goes to the default port
\* of the scheme.
C38_RelativeRedirectDropsPort ==
    (probe.fn = "redirect_url" /\ ~IsAbsoluteHttp(probe.location)) =>
        LET current == url_parse(probe.base)
            target  == url_parse(probe.out)
        IN  /\ target.ok /\ target.has_host
            /\ target.scheme = current.scheme /\ target.host = current.host
            /\ target.port = 0
            /\ port_or_default(target) = 443

\* a redirect to `/x` met at https://a.example:8443/dir/page
C38_Witness ==
    /\ probe.fn = "redirect_url"
    /\ url_parse(probe.base).port = 8443 /\ probe.location = <<"/", "x">>
    /\ probe.out = <<"https", ":", "//", "a.example", "/", "x">>

\* the call is at a URL with a host and a scheme other than https
C39_OffHttps(c) ==
    LET url == IF call[c].op = "mem" THEN call[c].url ELSE call[c].current_url
    IN  /\ call[c].op \in {"file", "mem"}
        /\ url_parse(url).ok /\ url_parse(url).has_host
        /\ url_parse(url).scheme # "https"

\* the stream of the call was asked for at the host and port of its URL, under the
\* session token, after a rate-limit delay for this attempt
C39_StreamAsked(r, url) ==
    /\ r.attempts >= 1 /\ r.delays >= r.attempts
    /\ r.last_delay = rate_limit_delay
    /\ r.stream_token = isolation_token
    /\ r.stream_host = url_parse(url).host
    /\ r.stream_port = port_or_default(url_parse(url))
    /\ url_parse(url).scheme = "http" => r.stream_port = 80

C39_Step ==
    \A c \in DOMAIN call :
        (C39_OffHttps(c) /\ Stepped(c)) =>
            LET url == IF call[c].op = "mem" THEN call[c].url ELSE call[c].current_url
            IN  \* the connection attempt: a stream, or the connection error
                /\ call[c].pc = "connect" =>
                       /\ call[c].delays = call[c].attempts + 1
                       /\ C39_StreamAsked(call[c]', url)
                       /\ \/ call[c]'.pc = "tls" /\ call[c]'.stream = "open"
                          \/ /\ call[c]'.pc = "done"
                             /\ call[c]'.outcome = Err("Failed to connect through Tor", <<>>)
                \* the unsupported-scheme error: only from an open stream
                /\ (call[c]'.pc = "done" /\ call[c]'.outcome.msg \in Unsupported) =>
                       /\ call[c].pc = "tls" /\ call[c].stream = "open"
                       /\ C39_StreamAsked(call[c], url)
                       /\ call[c]'.handshakes = call[c].handshakes
                       /\ call[c]'.outcome.msg =
                              (IF call[c].op = "mem"
                               THEN "Only HTTPS is supported for web services"
                               ELSE "Only HTTPS is supported in this implementation")
                \* with a stream open the scheme test is the next step
                /\ call[c].pc = "tls" =>
                       call[c]'.pc = "done" /\ call[c]'.outcome.msg \in Unsupported

\* C39: in both operations the scheme is tested after the rate-limit delay and after a
\* successful transport connect: for a URL whose scheme is not https a stream to the
\* host and port of the URL (port 80 for http) is opened under the session token
\* before the call fails with the unsupported-scheme error, and when that connect
\* fails the call ends with the connection error.
C39_SchemeTestAfterConnect == [][C39_Step]_vars

\* a fetch-to-memory call at an http:// URL that ended with the unsupported-scheme
\* error over a stream to port 80
C39_Witness ==
    \E c \in DOMAIN call :
        /\ call[c].op = "mem" /\ call[c].url = UrlHttp /\ call[c].pc = "done"
        /\ call[c].outcome = Err("Only HTTPS is supported for web services", <<>>)
        /\ call[c].delays = 1 /\ call[c].attempts = 1
        /\ call[c].stream_port = 80 /\ call[c].stream_token = isolation_token
        /\ call[c].handshakes = 0 /\ call[c].requests = 0

\* the spellings of POST among the methods of the model
C40_IsPost(m) == m \in {"POST", "post", "Post"}

\* C40: the collect command takes the fetch-to-memory branch exactly when the method
\* is POST in any letter case, or a request body (data or a data file) is given, or
\* there is at least one custom header, and the fetch-to-file branch otherwise; on the
\* fetch-to-file branch the request written is a GET, so another method given without
\* body and headers (PUT) is not the method sent.
C40_CollectRouting ==
    probe.fn = "collect" =>
        /\ probe.route \in {"download_web_service", "download_file"}
        /\ probe.route = "download_web_service"
              <=> \/ C40_IsPost(probe.method.v)
                  \/ probe.data.some
                  \/ probe.data_file.some
                  \/ probe.headers # <<>>
        /\ probe.route = "download_file" =>
              /\ probe.called
              /\ starts_with(probe.request.lines[1], <<"GET", " ">>)
              /\ probe.request.body = <<>>
              /\ probe.method.v = "PUT" => probe.request.lines[1][1] # "PUT"

\* --method PUT with no body and no header: fetch-to-file, and a GET is written
C40_Witness ==
    /\ probe.fn = "collect" /\ probe.method.v = "PUT"
    /\ ~probe.data.some /\ ~probe.data_file.some /\ probe.headers = <<>>
    /\ probe.route = "download_file"
    /\ probe.request.lines[1] =
           <<"GET", " ", "/", "dir", "/", "page", " ", "HTTP", "/", "1.1">>

====
